---- MODULE Spec2Model ----
(***************************************************************************)
(* Model of the Studly backend: the Hono route handlers of the Classes,    *)
(* Matieres, Lecons, SousLecons, Exercices, OptionsQCM hierarchy and       *)
(* the relational store (Prisma over a D1/SQLite database) they act on.    *)
(*                                                                         *)
(* Every handler is one action: it reads the request, runs the handler's   *)
(* checks in source order, performs the write through the storage layer    *)
(* (with the referential actions of the persisted schema) and records the  *)
(* HTTP response.  Requests are handled one at a time.                     *)
(***************************************************************************)
EXTENDS Integers, Sequences, FiniteSets, TLC

(***************************************************************************)
(* Bounds of the model.                                                    *)
(***************************************************************************)
\* number of requests of one behaviour that change the store
MaxWrites == 1
\* largest limit / offset a list request carries
MaxLimit == 1
\* the longest batch of a bulk request
MaxBatch == 2

(***************************************************************************)
(* Values.                                                                 *)
(***************************************************************************)
\* undefined / null: an optional field that is absent, a nullable column
\* that is NULL, the result of console.log(...)
Null == -1
\* the empty string "" given where an id is expected (falsy in JavaScript)
EmptyId == 0
\* an absent (or empty, hence falsy) string
NoText == << >>

\* strings are sequences of characters
Chars == {"a", "A", "b"}
LowerChar(ch) == IF ch = "A" THEN "a" ELSE ch
ToLower(s) == [i \in DOMAIN s |-> LowerChar(s[i])]
\* s contains t as a substring
Contains(s, t) ==
  \E i \in 0..(Len(s) - Len(t)) : SubSeq(s, i + 1, i + Len(t)) = t
\* Prisma string filter { equals: t }
Equals(s, t) == s = t
\* Prisma string filter { equals: t, mode: "insensitive" }
EqualsInsensitive(s, t) == ToLower(s) = ToLower(t)
\* Prisma string filter { contains: t, mode: "insensitive" }
ContainsInsensitive(s, t) == Contains(ToLower(s), ToLower(t))

\* names a request may carry (non-empty, as the zod schemas require)
Names == {<<"a">>, <<"A">>, <<"b">>}
\* descriptions a request may carry (NoText: the field is absent)
Descriptions == {NoText, <<"b">>}

\* a schema enum that also holds a type of the update schema
TypesExerciceWide == {"QCM", "Numerique", "VRAI_FAUX"}
\* enum TypesExercice of the persisted schema
TypesExercice == {"QCM", "Numerique"}
\* z.enum of createExerciceSchema
CreateTypes == {"QCM", "VRAI_FAUX", "COMPLETION", "REDACTION"}
\* z.enum of updateExerciceSchema
UpdateTypes == {"QCM", "VRAI_FAUX", "COMPLETION"}

\* enum TypesUtilisateur of the persisted schema
TypesUtilisateur == {"ADMIN", "ELEVE", "MODERATOR"}
\* typesUtilisateur: "USER" of user.post("/register")
RegisterType == "USER"
\* z.enum of updateUserSchema
UpdateUserTypes == {"USER", "ADMIN"}

\* an absent (or empty, hence falsy) email, password or enum value
NoString == ""
\* emails and passwords a request may carry
Emails == {"x@s", "y@s", "z@s"}
Passwords == {"p", "q"}
\* hashPassword: the SHA-256 digest of the password in hexadecimal
hashPassword(password) ==
  CASE password = "p" -> "sha256(p)"
    [] password = "q" -> "sha256(q)"
    [] OTHER -> "sha256()"
\* verifyPassword
verifyPassword(password, hash) == hashPassword(password) = hash

\* Date.now() of a login, in milliseconds
Times == {1999, 2000}
\* the Authorization header of a request: absent, not a token signed with
\* JWT_SECRET, such a token past its exp, such a token before its exp
Tokens == {"none", "invalid", "expired", "valid"}

(***************************************************************************)
(* State: the tables of the database (functions from the ids of the stored *)
(* rows to the rows), the id generator, the foreign-key enforcement of the *)
(* storage engine, and the request being answered with its response.       *)
(***************************************************************************)
VARIABLES
  classes,            \* id -> [nom]
  matieres,           \* id -> [nom, classesId]
  lecons,             \* id -> [nom, description, matieresId]
  sousLecons,         \* id -> [nom, description, leconsId]
  exercices,          \* id -> [matieresId, leconId, sousLeconsId, typesExercice]
  optionsQCM,         \* id -> [exercicesId]
  leconsUtilisateur,  \* id -> [leconsId, userId]
  users,              \* id -> [classesId]
  nextId,             \* table name -> the id the next created row gets
  foreignKeys,        \* TRUE iff the storage engine enforces foreign keys
  writes,             \* number of requests so far that changed the store
  req,                \* the last request
  resp,               \* its response
  inflight            \* a request another worker is in the middle of handling

tables == <<classes, matieres, lecons, sousLecons, exercices, optionsQCM,
            leconsUtilisateur, users>>
db == <<tables, nextId, foreignKeys>>
vars == <<db, writes, req, resp, inflight>>

\* table operations
Insert(t, id, row) == [x \in DOMAIN t \cup {id} |-> IF x = id THEN row ELSE t[x]]
Remove(t, id) == [x \in DOMAIN t \ {id} |-> t[x]]
Empty == [x \in {} |-> Null]
\* the rows of t whose column col holds v
Refs(t, col, v) == {x \in DOMAIN t : t[x][col] = v}
\* the ids of S in creation order (cuid ids are handed out in increasing order)
RECURSIVE Asc(_)
Asc(S) ==
  IF S = {} THEN << >>
  ELSE LET m == CHOOSE x \in S : \A y \in S : x <= y
       IN <<m>> \o Asc(S \ {m})
Reverse(s) == [i \in DOMAIN s |-> s[Len(s) + 1 - i]]
Desc(S) == Reverse(Asc(S))
Min(a, b) == IF a < b THEN a ELSE b
Max(a, b) == IF a > b THEN a ELSE b
\* Prisma findMany { skip, take } over the ordered rows
SkipTake(s, skip, take) == SubSeq(s, skip + 1, Min(Len(s), skip + take))

\* a request and a response carry every field; unused ones are Null / NoText
NoReq ==
  [op |-> "none", id |-> Null, nom |-> NoText, description |-> NoText,
   parentId |-> Null, leconId |-> Null, sousLeconsId |-> Null,
   typesExercice |-> "none", limit |-> Null, offset |-> Null,
   search |-> NoText, token |-> "none", tokenUser |-> Null,
   email |-> NoString, password |-> NoString, newPassword |-> NoString,
   typesUtilisateur |-> NoString, now |-> Null, fault |-> FALSE,
   batch |-> << >>, method |-> NoString, path |-> << >>]
\* no token / the payload of a signed token
NoToken == [userId |-> Null, email |-> NoString, exp |-> Null]
\* no user object in a response body
NoUser == [x \in {} |-> Null]
\* error: the message of the body (of the user routes), cause: the raised
\* error object when the body holds it, token and user: those of the body
NoResp ==
  [status |-> 0, data |-> << >>, total |-> Null, hasMore |-> FALSE,
   error |-> NoString, cause |-> FALSE, token |-> NoToken, user |-> NoUser]
Status(code) == [NoResp EXCEPT !.status = code]

\* a response whose body is { error: message }
Failure(code, message) == [NoResp EXCEPT !.status = code, !.error = message]

\* no request is in the middle of being handled by another worker
NoInflight == [req |-> NoReq, resp |-> NoResp]

\* ids a request may name: the stored ones and one that no row carries
Ids(t, name) == DOMAIN t \cup {nextId[name]}

(***************************************************************************)
(* Databases the service may be started on.                                *)
(***************************************************************************)
EmptyDb ==
  [classes |-> Empty, matieres |-> Empty, lecons |-> Empty,
   sousLecons |-> Empty, exercices |-> Empty, optionsQCM |-> Empty,
   leconsUtilisateur |-> Empty, users |-> Empty]

Row1(id, row) == Insert(Empty, id, row)
Row2(id1, row1, id2, row2) == Insert(Row1(id1, row1), id2, row2)

\* two parallel chains classe -> matiere -> lecon -> sous-lecon with the same
\* names; a QCM exercise with an option hangs on the first chain, another
\* exercise on the second matiere; the second chain has a matiere, a lecon
\* and a sous-lecon more, without rows below them; a third class has no
\* matieres.  User 1 follows the lecon `followed' and sits in `classe'.
\* (No route writes LeconsUtilisateur rows or User.classesId; the store
\* holds them from elsewhere.)
SeedDb(followed, classe) ==
  [classes |-> Insert(Row2(1, [nom |-> <<"a">>], 2, [nom |-> <<"b">>]),
                      3, [nom |-> <<"a", "b">>]),
   matieres |-> Insert(Row2(1, [nom |-> <<"a">>, classesId |-> 1],
                            2, [nom |-> <<"a">>, classesId |-> 2]),
                       3, [nom |-> <<"b">>, classesId |-> 2]),
   lecons |-> Insert(Row2(1, [nom |-> <<"a">>, description |-> NoText,
                              matieresId |-> 1],
                          2, [nom |-> <<"a">>, description |-> <<"b">>,
                              matieresId |-> 2]),
                     3, [nom |-> <<"b">>, description |-> NoText, matieresId |-> 2]),
   sousLecons |-> Insert(Row2(1, [nom |-> <<"a">>, description |-> NoText,
                                  leconsId |-> 1],
                              2, [nom |-> <<"a">>, description |-> <<"b">>,
                                  leconsId |-> 2]),
                         3, [nom |-> <<"b">>, description |-> NoText, leconsId |-> 2]),
   exercices |-> Row2(1, [matieresId |-> 1, leconId |-> 1, sousLeconsId |-> 1,
                          typesExercice |-> "QCM"],
                      2, [matieresId |-> 2, leconId |-> Null, sousLeconsId |-> Null,
                          typesExercice |-> "Numerique"]),
   optionsQCM |-> Row1(1, [exercicesId |-> 1]),
   leconsUtilisateur |-> Row1(1, [leconsId |-> followed, userId |-> 1]),
   users |-> Row2(1, [classesId |-> classe, email |-> "x@s",
                      password |-> "sha256(p)", typesUtilisateur |-> "ELEVE",
                      derniereConnexion |-> Null],
                  2, [classesId |-> Null, email |-> "y@s",
                      password |-> "sha256(q)", typesUtilisateur |-> "ADMIN",
                      derniereConnexion |-> Null])]

Seeds == {EmptyDb, SeedDb(2, 3), SeedDb(3, Null)}

\* the id after the largest stored one
Fresh(t) == IF DOMAIN t = {} THEN 1 ELSE 1 + (CHOOSE x \in DOMAIN t : \A y \in DOMAIN t : y <= x)

InitDb(seed) ==
  /\ classes = seed.classes
  /\ matieres = seed.matieres
  /\ lecons = seed.lecons
  /\ sousLecons = seed.sousLecons
  /\ exercices = seed.exercices
  /\ optionsQCM = seed.optionsQCM
  /\ leconsUtilisateur = seed.leconsUtilisateur
  /\ users = seed.users
  /\ nextId = [classes |-> Fresh(seed.classes), matieres |-> Fresh(seed.matieres),
               lecons |-> Fresh(seed.lecons), sousLecons |-> Fresh(seed.sousLecons),
               exercices |-> Fresh(seed.exercices),
               optionsQCM |-> Fresh(seed.optionsQCM),
               users |-> Fresh(seed.users)]
  /\ writes = 0
  /\ req = NoReq
  /\ resp = NoResp
  /\ inflight = NoInflight

Init ==
  /\ \E seed \in Seeds : InitDb(seed)
  /\ foreignKeys = TRUE

(***************************************************************************)
(* The response of a handler: the request is recorded, a response that     *)
(* follows a change of the store counts as a write.                        *)
(***************************************************************************)
Answer(r, response) ==
  /\ req' = r
  /\ resp' = response
  /\ UNCHANGED inflight
  /\ writes' = IF tables' # tables THEN writes + 1 ELSE writes

\* the handler returns without writing
Reply(r, response) ==
  /\ UNCHANGED db
  /\ Answer(r, response)

\* no request is being handled
Idle == req.op = "none"
\* the next request is taken: the model follows a behaviour up to its
\* MaxWrites-th change of the store
Accept == Idle /\ writes < MaxWrites

\* the handler has returned c.json(...): the response is sent, the request's
\* context is gone and the next request can be taken
Respond ==
  /\ ~Idle
  /\ req' = NoReq
  /\ resp' = NoResp
  /\ UNCHANGED <<db, writes, inflight>>

\* what a handler that writes one table leaves alone
exceptClasses == <<matieres, lecons, sousLecons, exercices, optionsQCM,
                   leconsUtilisateur>>
exceptMatieres == <<classes, lecons, sousLecons, exercices, optionsQCM,
                    leconsUtilisateur, users>>
exceptLecons == <<classes, matieres, sousLecons, optionsQCM,
                  leconsUtilisateur, users>>
exceptSousLecons == <<classes, matieres, lecons, optionsQCM,
                      leconsUtilisateur, users>>
exceptExercices == <<classes, matieres, lecons, sousLecons, optionsQCM,
                     leconsUtilisateur, users>>
exceptOptionsQCM == <<classes, matieres, lecons, sousLecons, exercices,
                      leconsUtilisateur, users>>
exceptUsers == <<classes, matieres, lecons, sousLecons, exercices, optionsQCM,
                 leconsUtilisateur>>

\* prisma.<table>.create: the row gets a fresh id
Allocate(name) == nextId' = [nextId EXCEPT ![name] = @ + 1]

(***************************************************************************)
(* Storage layer: the foreign keys of the persisted schema.  A required    *)
(* relation is ON DELETE RESTRICT, an optional one ON DELETE SET NULL.     *)
(* A statement that breaks a constraint throws; the handler's catch block  *)
(* answers it.  The Reponses and ReponsesUtilisateur tables, which no      *)
(* route writes, are taken to be empty.                                    *)
(***************************************************************************)
\* a stored reference is acceptable to the engine
FkOk(parentTable, id) == (~foreignKeys) \/ id = Null \/ id \in DOMAIN parentTable
\* deleting the row is refused because rows of child reference it
Restricts(child, col, id) == foreignKeys /\ Refs(child, col, id) # {}
\* ON DELETE SET NULL on the rows of child that reference the deleted row
SetNull(child, col, id) ==
  IF foreignKeys
  THEN [x \in DOMAIN child |->
          IF child[x][col] = id THEN [child[x] EXCEPT ![col] = Null] ELSE child[x]]
  ELSE child

(***************************************************************************)
(* Classes                                                                 *)
(***************************************************************************)
\* findFirst({ where: { nom: { equals, mode: "insensitive" } } })
ClassesPostExisting(nom) ==
  {x \in DOMAIN classes : EqualsInsensitive(classes[x].nom, nom)}

\* catch of POST /classes: a fixed message with status 500
ClassesPostCatch == Status(500)

\* POST /classes; fault: a query of the handler throws (the storage layer
\* fails), and the catch block answers
ClassesPost ==
  \E nom \in Names, fault \in BOOLEAN :
    LET r == [NoReq EXCEPT !.op = "classes.post", !.nom = nom,
                           !.fault = fault]
    IN /\ Accept
       /\ IF fault
          THEN Reply(r, ClassesPostCatch)
          ELSE IF ClassesPostExisting(nom) # {}
          THEN Reply(r, Status(400))
          ELSE /\ classes' = Insert(classes, nextId.classes, [nom |-> nom])
               /\ Allocate("classes")
               /\ UNCHANGED <<exceptClasses, users, foreignKeys>>
               /\ Answer(r, Status(201))

\* findFirst({ where: { nom: { equals: nom } } })
ClassesPostNewExisting(nom) ==
  {x \in DOMAIN classes : Equals(classes[x].nom, nom)}

\* catch of POST /classes/new: status(501), and the caught error is the
\* message of the body
ClassesPostNewCatch == [NoResp EXCEPT !.status = 501, !.cause = TRUE]

\* POST /classes/new; fault: a query of the handler throws
ClassesPostNew ==
  \E nom \in Names, fault \in BOOLEAN :
    LET r == [NoReq EXCEPT !.op = "classes.postNew", !.nom = nom,
                           !.fault = fault]
    IN /\ Accept
       /\ IF fault
          THEN Reply(r, ClassesPostNewCatch)
          ELSE IF ClassesPostNewExisting(nom) # {}
          THEN Reply(r, Status(400))
          ELSE /\ classes' = Insert(classes, nextId.classes, [nom |-> nom])
               /\ Allocate("classes")
               /\ UNCHANGED <<exceptClasses, users, foreignKeys>>
               /\ Answer(r, Status(201))

\* a faulty variant of ClassesPutDuplicate: the row itself is not excluded
ClassesPutDuplicateWithSelf(id, nom) ==
  {x \in DOMAIN classes : EqualsInsensitive(classes[x].nom, nom)}

\* findFirst({ where: { nom: { equals, mode: "insensitive" }, NOT: { id } } })
ClassesPutDuplicate(id, nom) ==
  {x \in DOMAIN classes : EqualsInsensitive(classes[x].nom, nom) /\ x # id}

\* prisma.classes.update({ where: { id }, data })
ClassesUpdate(id, nom) ==
  IF nom = NoText THEN classes ELSE [classes EXCEPT ![id].nom = nom]

\* the steps the two class update handlers share after the lookup by id
ClassesPutFound(r, id, nom) ==
  IF nom # NoText /\ nom # classes[id].nom /\ ClassesPutDuplicate(id, nom) # {}
  THEN Reply(r, Status(400))
  ELSE /\ classes' = ClassesUpdate(id, nom)
       /\ UNCHANGED <<exceptClasses, users, nextId, foreignKeys>>
       /\ Answer(r, Status(200))

\* PUT /classes/:id
ClassesPut ==
  \E id \in Ids(classes, "classes"), nom \in Names \cup {NoText} :
    LET r == [NoReq EXCEPT !.op = "classes.put", !.id = id, !.nom = nom]
    IN /\ Accept
       /\ IF id \notin DOMAIN classes
          THEN Reply(r, Status(404))
          ELSE ClassesPutFound(r, id, nom)

\* PUT /classes/:id/update: the not-found branch calls c.json, but no c is in
\* scope; the ReferenceError is caught and answered with 500
ClassesPutUpdate ==
  \E id \in Ids(classes, "classes"), nom \in Names \cup {NoText} :
    LET r == [NoReq EXCEPT !.op = "classes.putUpdate", !.id = id, !.nom = nom]
    IN /\ Accept
       /\ IF id \notin DOMAIN classes
          THEN Reply(r, Status(500))
          ELSE ClassesPutFound(r, id, nom)

\* existingClasse.Matieres of findUnique({ where: { id }, include: { Matieres: true } })
ClassesMatieres(id) == Refs(matieres, "classesId", id)

\* a faulty variant of ClassesDeleteRow: User.classesId declared as a required
\* relation, so that a referencing user blocks the delete
ClassesDeleteRowUsersRestrict(r, id) ==
  IF Restricts(matieres, "classesId", id) \/ Restricts(users, "classesId", id)
  THEN Reply(r, Status(500))
  ELSE /\ classes' = Remove(classes, id)
       /\ users' = users
       /\ UNCHANGED <<exceptClasses, nextId, foreignKeys>>
       /\ Answer(r, Status(200))

\* prisma.classes.delete({ where: { id } }): Matieres.classesId restricts,
\* User.classesId is set to NULL
ClassesDeleteRow(r, id) ==
  IF Restricts(matieres, "classesId", id)
  THEN Reply(r, Status(500))
  ELSE /\ classes' = Remove(classes, id)
       /\ users' = SetNull(users, "classesId", id)
       /\ UNCHANGED <<exceptClasses, nextId, foreignKeys>>
       /\ Answer(r, Status(200))

\* the body of DELETE /classes/:id and of DELETE /classes/:id/delete
ClassesDeleteBody(r, id) ==
  IF id \notin DOMAIN classes
  THEN Reply(r, Status(404))
  ELSE IF Cardinality(ClassesMatieres(id)) > 0
       THEN Reply(r, Status(400))
       ELSE ClassesDeleteRow(r, id)

\* DELETE /classes/:id
ClassesDelete ==
  \E id \in Ids(classes, "classes") :
    /\ Accept
    /\ ClassesDeleteBody([NoReq EXCEPT !.op = "classes.delete", !.id = id], id)

\* DELETE /classes/:id/delete
ClassesDeleteDelete ==
  \E id \in Ids(classes, "classes") :
    /\ Accept
    /\ ClassesDeleteBody([NoReq EXCEPT !.op = "classes.deleteDelete", !.id = id], id)

(***************************************************************************)
(* Matieres                                                                *)
(***************************************************************************)
\* findFirst({ where: { nom, classesId } })
MatieresPostExisting(nom, classesId) ==
  {x \in DOMAIN matieres :
     Equals(matieres[x].nom, nom) /\ matieres[x].classesId = classesId}

\* a faulty variant of MatieresPost: the lookup of the class is left out and
\* the create statement runs into the foreign key
MatieresPostNoLookup ==
  \E nom \in Names, classesId \in Ids(classes, "classes") :
    LET r == [NoReq EXCEPT !.op = "matieres.post", !.nom = nom,
                           !.parentId = classesId]
    IN /\ Accept
       /\ IF MatieresPostExisting(nom, classesId) # {}
          THEN Reply(r, Status(400))
          ELSE IF ~FkOk(classes, classesId)
               THEN Reply(r, Status(500))
               ELSE /\ matieres' = Insert(matieres, nextId.matieres,
                                          [nom |-> nom, classesId |-> classesId])
                    /\ Allocate("matieres")
                    /\ UNCHANGED <<exceptMatieres, foreignKeys>>
                    /\ Answer(r, Status(201))

\* POST /matieres
MatieresPost ==
  \E nom \in Names, classesId \in Ids(classes, "classes") :
    LET r == [NoReq EXCEPT !.op = "matieres.post", !.nom = nom,
                           !.parentId = classesId]
    IN /\ Accept
       /\ IF classesId \notin DOMAIN classes
          THEN Reply(r, Status(400))
          ELSE IF MatieresPostExisting(nom, classesId) # {}
               THEN Reply(r, Status(400))
               ELSE /\ matieres' = Insert(matieres, nextId.matieres,
                                          [nom |-> nom, classesId |-> classesId])
                    /\ Allocate("matieres")
                    /\ UNCHANGED <<exceptMatieres, foreignKeys>>
                    /\ Answer(r, Status(201))

\* if (data.x): the field is present and not the empty string
Truthy(id) == id # Null /\ id # EmptyId

\* findFirst({ where: { nom, classesId, NOT: { id } } })
MatieresPutDuplicate(id, nom, classesId) ==
  {x \in DOMAIN matieres :
     /\ Equals(matieres[x].nom, nom)
     /\ matieres[x].classesId = classesId
     /\ x # id}

\* the uniqueness check of PUT /matieres/:id: only when a name is given
MatieresPutConflict(id, nom, classesId) ==
  /\ nom # NoText
  /\ MatieresPutDuplicate(id, nom,
       IF Truthy(classesId) THEN classesId ELSE matieres[id].classesId) # {}

\* prisma.matieres.update({ where: { id }, data })
MatieresUpdate(id, nom, classesId) ==
  [matieres EXCEPT
     ![id].nom = IF nom = NoText THEN @ ELSE nom,
     ![id].classesId = IF classesId = Null THEN @ ELSE classesId]

\* PUT /matieres/:id
MatieresPut ==
  \E id \in Ids(matieres, "matieres"), nom \in Names \cup {NoText},
     classesId \in Ids(classes, "classes") \cup {Null, EmptyId} :
    LET r == [NoReq EXCEPT !.op = "matieres.put", !.id = id, !.nom = nom,
                           !.parentId = classesId]
    IN /\ Accept
       /\ IF id \notin DOMAIN matieres
          THEN Reply(r, Status(404))
          ELSE IF Truthy(classesId) /\ classesId \notin DOMAIN classes
               THEN Reply(r, Status(400))
               ELSE IF MatieresPutConflict(id, nom, classesId)
                    THEN Reply(r, Status(400))
                    ELSE IF ~FkOk(classes, classesId)
                         THEN Reply(r, Status(500))
                         ELSE /\ matieres' = MatieresUpdate(id, nom, classesId)
                              /\ UNCHANGED <<exceptMatieres, nextId, foreignKeys>>
                              /\ Answer(r, Status(200))

\* existingMatiere.Lecons and existingMatiere.Exercices
MatieresLecons(id) == Refs(lecons, "matieresId", id)
MatieresExercices(id) == Refs(exercices, "matieresId", id)

\* prisma.matieres.delete({ where: { id } })
MatieresDeleteRow(r, id) ==
  IF Restricts(lecons, "matieresId", id) \/ Restricts(exercices, "matieresId", id)
  THEN Reply(r, Status(500))
  ELSE /\ matieres' = Remove(matieres, id)
       /\ UNCHANGED <<exceptMatieres, nextId, foreignKeys>>
       /\ Answer(r, Status(200))

\* DELETE /matieres/:id
MatieresDelete ==
  \E id \in Ids(matieres, "matieres") :
    LET r == [NoReq EXCEPT !.op = "matieres.delete", !.id = id]
    IN /\ Accept
       /\ IF id \notin DOMAIN matieres
          THEN Reply(r, Status(404))
          ELSE IF Cardinality(MatieresLecons(id)) > 0
                  \/ Cardinality(MatieresExercices(id)) > 0
               THEN Reply(r, Status(400))
               ELSE MatieresDeleteRow(r, id)

(***************************************************************************)
(* Lecons                                                                  *)
(***************************************************************************)
\* findFirst({ where: { nom: { equals, mode: "insensitive" }, matieresId } })
LeconsPostExisting(nom, matieresId) ==
  {x \in DOMAIN lecons :
     EqualsInsensitive(lecons[x].nom, nom) /\ lecons[x].matieresId = matieresId}

\* POST /lecons/new
LeconsPostNew ==
  \E nom \in Names, description \in Descriptions,
     matieresId \in Ids(matieres, "matieres") :
    LET r == [NoReq EXCEPT !.op = "lecons.postNew", !.nom = nom,
                           !.description = description, !.parentId = matieresId]
    IN /\ Accept
       /\ IF matieresId \notin DOMAIN matieres
          THEN Reply(r, Status(400))
          ELSE IF LeconsPostExisting(nom, matieresId) # {}
               THEN Reply(r, Status(400))
               ELSE /\ lecons' = Insert(lecons, nextId.lecons,
                                        [nom |-> nom, description |-> description,
                                         matieresId |-> matieresId])
                    /\ Allocate("lecons")
                    /\ UNCHANGED <<exceptLecons, exercices, foreignKeys>>
                    /\ Answer(r, Status(201))

\* findFirst({ where: { nom: { equals, mode: "insensitive" }, matieresId, NOT: { id } } })
LeconsPutDuplicate(id, nom, matieresId) ==
  {x \in DOMAIN lecons :
     /\ EqualsInsensitive(lecons[x].nom, nom)
     /\ lecons[x].matieresId = matieresId
     /\ x # id}

\* the uniqueness check of PUT /lecons/lecons/:id: only when the name changes
LeconsPutConflict(id, nom, matieresId) ==
  /\ nom # NoText
  /\ nom # lecons[id].nom
  /\ LeconsPutDuplicate(id, nom,
       IF matieresId # Null THEN matieresId ELSE lecons[id].matieresId) # {}

\* prisma.lecons.update({ where: { id }, data })
LeconsUpdate(id, nom, description, matieresId) ==
  [lecons EXCEPT
     ![id].nom = IF nom = NoText THEN @ ELSE nom,
     ![id].description = IF description = NoText THEN @ ELSE description,
     ![id].matieresId = IF matieresId = Null THEN @ ELSE matieresId]

\* PUT /lecons/lecons/:id (the update requests sent carry no description)
LeconsPut ==
  \E id \in Ids(lecons, "lecons"), nom \in Names \cup {NoText},
     description \in {NoText},
     matieresId \in Ids(matieres, "matieres") \cup {Null} :
    LET r == [NoReq EXCEPT !.op = "lecons.put", !.id = id, !.nom = nom,
                           !.description = description, !.parentId = matieresId]
    IN /\ Accept
       /\ IF id \notin DOMAIN lecons
          THEN Reply(r, Status(404))
          ELSE IF /\ matieresId # Null
                  /\ matieresId # lecons[id].matieresId
                  /\ matieresId \notin DOMAIN matieres
               THEN Reply(r, Status(400))
               ELSE IF LeconsPutConflict(id, nom, matieresId)
                    THEN Reply(r, Status(400))
                    ELSE IF ~FkOk(matieres, matieresId)
                         THEN Reply(r, Status(500))
                         ELSE /\ lecons' = LeconsUpdate(id, nom, description, matieresId)
                              /\ UNCHANGED <<exceptLecons, exercices, nextId, foreignKeys>>
                              /\ Answer(r, Status(200))

\* existingLecon.SousLecons, .Exercices and .LeconsUtilisateur
LeconsSousLecons(id) == Refs(sousLecons, "leconsId", id)
LeconsExercices(id) == Refs(exercices, "leconId", id)
LeconsLeconsUtilisateur(id) == Refs(leconsUtilisateur, "leconsId", id)

\* a faulty variant of LeconsHasRelatedData: the LeconsUtilisateur relation is
\* not counted
LeconsHasRelatedDataNoLinks(id) ==
  \/ Cardinality(LeconsSousLecons(id)) > 0
  \/ Cardinality(LeconsExercices(id)) > 0

\* const hasRelatedData = ...
LeconsHasRelatedData(id) ==
  \/ Cardinality(LeconsSousLecons(id)) > 0
  \/ Cardinality(LeconsExercices(id)) > 0
  \/ Cardinality(LeconsLeconsUtilisateur(id)) > 0

\* prisma.lecons.delete({ where: { id } }): SousLecons.leconsId and
\* LeconsUtilisateur.leconsId restrict, Exercices.leconId is set to NULL
LeconsDeleteRow(r, id) ==
  IF Restricts(sousLecons, "leconsId", id)
     \/ Restricts(leconsUtilisateur, "leconsId", id)
  THEN Reply(r, Status(500))
  ELSE /\ lecons' = Remove(lecons, id)
       /\ exercices' = SetNull(exercices, "leconId", id)
       /\ UNCHANGED <<exceptLecons, nextId, foreignKeys>>
       /\ Answer(r, Status(200))

\* DELETE /lecons/lecons/:id
LeconsDelete ==
  \E id \in Ids(lecons, "lecons") :
    LET r == [NoReq EXCEPT !.op = "lecons.delete", !.id = id]
    IN /\ Accept
       /\ IF id \notin DOMAIN lecons
          THEN Reply(r, Status(404))
          ELSE IF LeconsHasRelatedData(id)
               THEN Reply(r, Status(400))
               ELSE LeconsDeleteRow(r, id)

(***************************************************************************)
(* SousLecons                                                              *)
(***************************************************************************)
\* findFirst({ where: { nom: { equals, mode: "insensitive" }, leconsId } })
SousLeconsPostExisting(nom, leconsId) ==
  {x \in DOMAIN sousLecons :
     EqualsInsensitive(sousLecons[x].nom, nom) /\ sousLecons[x].leconsId = leconsId}

\* POST /souslecons/new
SousLeconsPostNew ==
  \E nom \in Names, description \in Descriptions,
     leconsId \in Ids(lecons, "lecons") :
    LET r == [NoReq EXCEPT !.op = "sousLecons.postNew", !.nom = nom,
                           !.description = description, !.parentId = leconsId]
    IN /\ Accept
       /\ IF leconsId \notin DOMAIN lecons
          THEN Reply(r, Status(400))
          ELSE IF SousLeconsPostExisting(nom, leconsId) # {}
               THEN Reply(r, Status(400))
               ELSE /\ sousLecons' = Insert(sousLecons, nextId.sousLecons,
                                            [nom |-> nom, description |-> description,
                                             leconsId |-> leconsId])
                    /\ Allocate("sousLecons")
                    /\ UNCHANGED <<exceptSousLecons, exercices, foreignKeys>>
                    /\ Answer(r, Status(201))

\* findFirst({ where: { nom: { equals, mode: "insensitive" }, leconsId, NOT: { id } } })
SousLeconsPutDuplicate(id, nom, leconsId) ==
  {x \in DOMAIN sousLecons :
     /\ EqualsInsensitive(sousLecons[x].nom, nom)
     /\ sousLecons[x].leconsId = leconsId
     /\ x # id}

\* the uniqueness check of PUT /souslecons/:id: only when the name changes
SousLeconsPutConflict(id, nom, leconsId) ==
  /\ nom # NoText
  /\ nom # sousLecons[id].nom
  /\ SousLeconsPutDuplicate(id, nom,
       IF leconsId # Null THEN leconsId ELSE sousLecons[id].leconsId) # {}

\* prisma.sousLecons.update({ where: { id }, data })
SousLeconsUpdate(id, nom, description, leconsId) ==
  [sousLecons EXCEPT
     ![id].nom = IF nom = NoText THEN @ ELSE nom,
     ![id].description = IF description = NoText THEN @ ELSE description,
     ![id].leconsId = IF leconsId = Null THEN @ ELSE leconsId]

\* PUT /souslecons/:id (the update requests sent carry no description)
SousLeconsPut ==
  \E id \in Ids(sousLecons, "sousLecons"), nom \in Names \cup {NoText},
     description \in {NoText},
     leconsId \in Ids(lecons, "lecons") \cup {Null} :
    LET r == [NoReq EXCEPT !.op = "sousLecons.put", !.id = id, !.nom = nom,
                           !.description = description, !.parentId = leconsId]
    IN /\ Accept
       /\ IF id \notin DOMAIN sousLecons
          THEN Reply(r, Status(404))
          ELSE IF /\ leconsId # Null
                  /\ leconsId # sousLecons[id].leconsId
                  /\ leconsId \notin DOMAIN lecons
               THEN Reply(r, Status(400))
               ELSE IF SousLeconsPutConflict(id, nom, leconsId)
                    THEN Reply(r, Status(400))
                    ELSE IF ~FkOk(lecons, leconsId)
                         THEN Reply(r, Status(500))
                         ELSE /\ sousLecons' =
                                   SousLeconsUpdate(id, nom, description, leconsId)
                              /\ UNCHANGED <<exceptSousLecons, exercices, nextId,
                                             foreignKeys>>
                              /\ Answer(r, Status(200))

\* existingSousLecon.Exercices
SousLeconsExercices(id) == Refs(exercices, "sousLeconsId", id)

\* prisma.sousLecons.delete({ where: { id } }): Exercices.sousLeconsId is
\* set to NULL
SousLeconsDeleteRow(r, id) ==
  /\ sousLecons' = Remove(sousLecons, id)
  /\ exercices' = SetNull(exercices, "sousLeconsId", id)
  /\ UNCHANGED <<exceptSousLecons, nextId, foreignKeys>>
  /\ Answer(r, Status(200))

\* DELETE /souslecons/:id
SousLeconsDelete ==
  \E id \in Ids(sousLecons, "sousLecons") :
    LET r == [NoReq EXCEPT !.op = "sousLecons.delete", !.id = id]
    IN /\ Accept
       /\ IF id \notin DOMAIN sousLecons
          THEN Reply(r, Status(404))
          ELSE IF Cardinality(SousLeconsExercices(id)) > 0
               THEN Reply(r, Status(400))
               ELSE SousLeconsDeleteRow(r, id)

(***************************************************************************)
(* Exercices                                                               *)
(***************************************************************************)
\* an explicit JSON null in a payload (nullable field of updateExerciceSchema)
JsonNull == -2

\* prisma.exercices.create({ data }): the type has to be a value of the enum
ExercicesCreateRow(r, matieresId, leconId, sousLeconsId, type) ==
  IF type \notin TypesExercice
  THEN Reply(r, Status(500))
  ELSE /\ exercices' = Insert(exercices, nextId.exercices,
                              [matieresId |-> matieresId, leconId |-> leconId,
                               sousLeconsId |-> sousLeconsId,
                               typesExercice |-> type])
       /\ Allocate("exercices")
       /\ UNCHANGED <<exceptExercices, foreignKeys>>
       /\ Answer(r, Status(201))

\* the optional parents of the payloads of POST /exercices the model sends:
\* at most one of leconId and sousLeconsId
ExercicesPostParents ==
  {[leconId |-> l, sousLeconsId |-> Null] : l \in Ids(lecons, "lecons") \cup {Null}}
  \cup {[leconId |-> Null, sousLeconsId |-> x] : x \in Ids(sousLecons, "sousLecons")}

\* POST /exercices
ExercicesPost ==
  \E matieresId \in Ids(matieres, "matieres"), parents \in ExercicesPostParents,
     type \in {"QCM", "VRAI_FAUX"} :
    LET leconId == parents.leconId
        sousLeconsId == parents.sousLeconsId
        r == [NoReq EXCEPT !.op = "exercices.post", !.parentId = matieresId,
                           !.leconId = leconId, !.sousLeconsId = sousLeconsId,
                           !.typesExercice = type]
    IN /\ Accept
       /\ IF matieresId \notin DOMAIN matieres
          THEN Reply(r, Status(404))
          ELSE IF sousLeconsId # Null /\ sousLeconsId \notin DOMAIN sousLecons
               THEN Reply(r, Status(404))
               ELSE IF leconId # Null /\ leconId \notin DOMAIN lecons
                    THEN Reply(r, Status(404))
                    ELSE ExercicesCreateRow(r, matieresId, leconId, sousLeconsId, type)

\* the value a nullable column gets from a payload field
Column(old, field) ==
  IF field = Null THEN old ELSE IF field = JsonNull THEN Null ELSE field

\* prisma.exercices.update({ where: { id }, data })
ExercicesUpdateRow(r, id, matieresId, leconId, sousLeconsId, type) ==
  IF type # "none" /\ type \notin TypesExercice
  THEN Reply(r, Status(500))
  ELSE /\ exercices' =
            [exercices EXCEPT
               ![id].matieresId = IF matieresId = Null THEN @ ELSE matieresId,
               ![id].leconId = Column(@, leconId),
               ![id].sousLeconsId = Column(@, sousLeconsId),
               ![id].typesExercice = IF type = "none" THEN @ ELSE type]
       /\ UNCHANGED <<exceptExercices, nextId, foreignKeys>>
       /\ Answer(r, Status(200))

\* the payloads of PUT /exercices/:id the model sends: at most one field
ExercicesPutPayloads ==
  LET none == [matieresId |-> Null, leconId |-> Null, sousLeconsId |-> Null,
               typesExercice |-> "none"]
  IN {none}
     \cup {[none EXCEPT !.matieresId = m] : m \in Ids(matieres, "matieres")}
     \cup {[none EXCEPT !.leconId = l] : l \in Ids(lecons, "lecons") \cup {JsonNull}}
     \cup {[none EXCEPT !.sousLeconsId = s] :
             s \in Ids(sousLecons, "sousLecons") \cup {JsonNull}}
     \cup {[none EXCEPT !.typesExercice = t] : t \in {"QCM", "VRAI_FAUX"}}

\* PUT /exercices/:id
ExercicesPut ==
  \E id \in Ids(exercices, "exercices"), data \in ExercicesPutPayloads :
    LET r == [NoReq EXCEPT !.op = "exercices.put", !.id = id,
                           !.parentId = data.matieresId,
                           !.leconId = data.leconId,
                           !.sousLeconsId = data.sousLeconsId,
                           !.typesExercice = data.typesExercice]
        given(x) == x # Null /\ x # JsonNull
    IN /\ Accept
       /\ IF id \notin DOMAIN exercices
          THEN Reply(r, Status(404))
          ELSE IF given(data.matieresId) /\ data.matieresId \notin DOMAIN matieres
               THEN Reply(r, Status(404))
               ELSE IF given(data.sousLeconsId)
                       /\ data.sousLeconsId \notin DOMAIN sousLecons
                    THEN Reply(r, Status(404))
                    ELSE IF given(data.leconId) /\ data.leconId \notin DOMAIN lecons
                         THEN Reply(r, Status(404))
                         ELSE ExercicesUpdateRow(r, id, data.matieresId, data.leconId,
                                                 data.sousLeconsId, data.typesExercice)

\* a faulty variant of ExercicesDeleteRow: OptionsQCM.exercicesId declared
\* ON DELETE CASCADE, as the comment in the handler expects
ExercicesDeleteRowCascade(r, id) ==
  /\ exercices' = Remove(exercices, id)
  /\ optionsQCM' = [x \in DOMAIN optionsQCM \ Refs(optionsQCM, "exercicesId", id)
                      |-> optionsQCM[x]]
  /\ UNCHANGED <<classes, matieres, lecons, sousLecons, leconsUtilisateur, users,
                 nextId, foreignKeys>>
  /\ Answer(r, Status(200))

\* prisma.exercices.delete({ where: { id } }): OptionsQCM.exercicesId restricts
ExercicesDeleteRow(r, id) ==
  IF Restricts(optionsQCM, "exercicesId", id)
  THEN Reply(r, Status(500))
  ELSE /\ exercices' = Remove(exercices, id)
       /\ UNCHANGED <<exceptExercices, nextId, foreignKeys>>
       /\ Answer(r, Status(200))

\* DELETE /exercices/:id
ExercicesDelete ==
  \E id \in Ids(exercices, "exercices") :
    LET r == [NoReq EXCEPT !.op = "exercices.delete", !.id = id]
    IN /\ Accept
       /\ IF id \notin DOMAIN exercices
          THEN Reply(r, Status(404))
          ELSE ExercicesDeleteRow(r, id)

(***************************************************************************)
(* OptionsQCM                                                              *)
(***************************************************************************)
\* POST /options-qcm
OptionsQCMPost ==
  \E exercicesId \in Ids(exercices, "exercices") :
    LET r == [NoReq EXCEPT !.op = "optionsQCM.post", !.parentId = exercicesId]
    IN /\ Accept
       /\ IF exercicesId \notin DOMAIN exercices
          THEN Reply(r, Status(404))
          ELSE IF exercices[exercicesId].typesExercice # "QCM"
               THEN Reply(r, Status(400))
               ELSE /\ optionsQCM' = Insert(optionsQCM, nextId.optionsQCM,
                                            [exercicesId |-> exercicesId])
                    /\ Allocate("optionsQCM")
                    /\ UNCHANGED <<exceptOptionsQCM, foreignKeys>>
                    /\ Answer(r, Status(201))

\* DELETE /options-qcm/:id
OptionsQCMDelete ==
  \E id \in Ids(optionsQCM, "optionsQCM") :
    LET r == [NoReq EXCEPT !.op = "optionsQCM.delete", !.id = id]
    IN /\ Accept
       /\ IF id \notin DOMAIN optionsQCM
          THEN Reply(r, Status(404))
          ELSE /\ optionsQCM' = Remove(optionsQCM, id)
               /\ UNCHANGED <<exceptOptionsQCM, nextId, foreignKeys>>
               /\ Answer(r, Status(200))

(***************************************************************************)
(* Bulk requests.  prisma.$transaction([...]) runs on the D1 adapter       *)
(* (prisma_adapt.ts), which has no transactions: the statements run one    *)
(* after the other, the first that throws ends the batch, and what the     *)
(* earlier ones wrote stays.                                               *)
(***************************************************************************)
\* the non-empty sequences over `items' of at most MaxBatch elements
Batches(items) ==
  UNION {[1..n -> items] : n \in 1..MaxBatch}

\* what prisma.$transaction leaves in a table: `before' the rows at its
\* start, `attempt' the rows written until a statement threw (ok: none did)
Transaction(before, attempt) == attempt.rows

\* the prisma.optionsQCM.create statements of a batch of n options, run in
\* order on the rows t; failAt: the statement at which the storage layer
\* throws (0: at none)
RECURSIVE OptionsQCMBulkCreate(_, _, _, _, _)
OptionsQCMBulkCreate(t, exercicesId, i, n, failAt) ==
  IF i > n THEN [rows |-> t, ok |-> TRUE]
  ELSE IF i = failAt THEN [rows |-> t, ok |-> FALSE]
  ELSE OptionsQCMBulkCreate(
         Insert(t, nextId.optionsQCM + i - 1, [exercicesId |-> exercicesId]),
         exercicesId, i + 1, n, failAt)

\* POST /options-qcm/bulk; fault: the storage layer throws at the last
\* create of the batch
OptionsQCMBulk ==
  \E exercicesId \in Ids(exercices, "exercices"), n \in 1..MaxBatch,
     fault \in BOOLEAN :
    LET r == [NoReq EXCEPT !.op = "optionsQCM.bulk", !.parentId = exercicesId,
                           !.batch = [i \in 1..n |-> [exercicesId |-> exercicesId]],
                           !.fault = fault]
        attempt == OptionsQCMBulkCreate(optionsQCM, exercicesId, 1, n,
                                        IF fault THEN n ELSE 0)
    IN /\ Accept
       /\ IF exercicesId \notin DOMAIN exercices
          THEN Reply(r, Failure(404, "Exercice non trouvé"))
          ELSE IF exercices[exercicesId].typesExercice # "QCM"
          THEN Reply(r, Failure(400, "Cet exercice n'est pas de type QCM"))
          ELSE /\ optionsQCM' = Transaction(optionsQCM, attempt)
               /\ nextId' = [nextId EXCEPT !.optionsQCM =
                                      @ + Cardinality(DOMAIN optionsQCM')
                                        - Cardinality(DOMAIN optionsQCM)]
               /\ UNCHANGED <<exceptOptionsQCM, foreignKeys>>
               /\ Answer(r, IF attempt.ok THEN Status(201)
                               ELSE Failure(500, "Erreur serveur"))

\* the prisma.sousLecons.update statements of the batch, run in order on the
\* rows t; an update of a row that is not stored throws, and so does one
\* whose leconsId breaks the foreign key
RECURSIVE SousLeconsBulkUpdates(_, _)
SousLeconsBulkUpdates(t, updates) ==
  IF updates = << >> THEN [rows |-> t, ok |-> TRUE]
  ELSE LET u == Head(updates)
       IN IF u.id \notin DOMAIN t \/ ~FkOk(lecons, u.leconsId)
          THEN [rows |-> t, ok |-> FALSE]
          ELSE SousLeconsBulkUpdates(
                 [t EXCEPT ![u.id].leconsId =
                             IF u.leconsId = Null THEN @ ELSE u.leconsId],
                 Tail(updates))

\* the items of the batches sent: an id and a leconsId, of lecon 1 or of no
\* stored lecon (no item carries a nom or a description)
SousLeconsBulkItems ==
  [id : Ids(sousLecons, "sousLecons"), leconsId : {1, nextId.lecons}]

\* findMany({ where: { id: { in: sousLeconIds } } }): the stored rows whose
\* id is listed
SousLeconsBulkExisting(updates) ==
  {updates[i].id : i \in DOMAIN updates} \cap DOMAIN sousLecons

\* PUT /souslecons/bulk-update (the handler)
SousLeconsBulkUpdate ==
  \E updates \in Batches(SousLeconsBulkItems) :
    LET r == [NoReq EXCEPT !.op = "sousLecons.bulkUpdate", !.batch = updates]
        attempt == SousLeconsBulkUpdates(sousLecons, updates)
    IN /\ Accept
       /\ IF Cardinality(SousLeconsBulkExisting(updates)) # Len(updates)
          THEN Reply(r, Failure(400, "Une ou plusieurs sous-leçons n'existent pas"))
          ELSE /\ sousLecons' = Transaction(sousLecons, attempt)
               /\ UNCHANGED <<exceptSousLecons, exercices, nextId, foreignKeys>>
               /\ Answer(r, IF attempt.ok THEN Status(200) ELSE Status(500))

(***************************************************************************)
(* Users                                                                   *)
(***************************************************************************)
\* authMiddleware: jwt({ secret }) builds a verifier that is never called,
\* then next() runs the handler, whatever Authorization header came
AuthMiddleware(r) == "next"

\* getCurrentUser: c.get("jwtPayload"), which nothing has set
getCurrentUser(r) == Null

\* the columns of a stored user that `fields' selects
Select(u, id, fields) == [f \in fields |-> IF f = "id" THEN id ELSE u[f]]
\* select of prisma.user.create in register
RegisterSelect == {"id", "email", "typesUtilisateur"}
\* the user object login builds
LoginSelect == {"id", "email", "typesUtilisateur"}
\* select of the list, get, update and profile queries
UserSelect == {"id", "email", "derniereConnexion", "typesUtilisateur"}
\* an update without a select: every column of the row comes back
UserPutSelectAll == UserSelect \cup {"password"}
\* select of prisma.user.update in user.put("/:id")
UserPutSelect == UserSelect

\* prisma.user.findUnique({ where: { email } })
UserByEmail(email) == {u \in DOMAIN users : users[u].email = email}

\* prisma.user.create: the email is unique, typesUtilisateur is checked
\* against the enum of the schema
UserCreateRow(r, email, hash) ==
  IF UserByEmail(email) # {} \/ RegisterType \notin TypesUtilisateur
  THEN Reply(r, Failure(500, "Erreur serveur"))
  ELSE /\ users' = Insert(users, nextId.users,
                          [classesId |-> Null, email |-> email,
                           password |-> hash,
                           typesUtilisateur |-> RegisterType,
                           derniereConnexion |-> Null])
       /\ Allocate("users")
       /\ UNCHANGED <<exceptUsers, foreignKeys>>
       /\ Answer(r, [NoResp EXCEPT !.status = 201,
                       !.user = Select(users'[nextId.users], nextId.users,
                                       RegisterSelect)])

\* POST /users/register
UserRegister ==
  \E email \in Emails, password \in Passwords :
    LET r == [NoReq EXCEPT !.op = "user.register", !.email = email,
                           !.password = password]
    IN /\ Accept
       /\ IF UserByEmail(email) # {}
          THEN Reply(r, Failure(400, "Un utilisateur avec cet email existe déjà"))
          ELSE UserCreateRow(r, email, hashPassword(password))

\* a login that tells an unknown email from a wrong password
UserLoginNotFoundRevealing == Failure(400, "Utilisateur non trouvé")
\* the response of login when no user has the email
UserLoginNotFound == Failure(400, "Email ou mot de passe incorrect")
\* the response of login when the password does not verify
UserLoginInvalid == Failure(400, "Email ou mot de passe incorrect")
\* an exp computed from the milliseconds of Date.now()
UserLoginExpMillis(now) == now + 72 * 60 * 60
\* exp of the token: Math.floor(Date.now() / 1000) + 72 * 60 * 60
UserLoginExp(now) == (now \div 1000) + 72 * 60 * 60

\* POST /users/login: the body is read with c.req.json(), not validated, so
\* email or password may be absent (NoString); findUnique({ where: { email:
\* undefined } }) throws, an absent password is hashed as the empty string;
\* fault: sign(payload, c.env.JWT_SECRET) throws (the secret is not
\* configured), after derniereConnexion has been written; the catch block
\* answers what is thrown
UserLogin ==
  \E email \in Emails \cup {NoString}, password \in Passwords \cup {NoString},
     now \in Times, fault \in BOOLEAN :
    LET r == [NoReq EXCEPT !.op = "user.login", !.email = email,
                           !.password = password, !.now = now,
                           !.fault = fault]
    IN /\ Accept
       /\ IF email = NoString
          THEN Reply(r, Failure(500, "Erreur serveur"))
          ELSE IF UserByEmail(email) = {}
          THEN Reply(r, UserLoginNotFound)
          ELSE LET id == CHOOSE u \in UserByEmail(email) : TRUE
               IN IF ~verifyPassword(password, users[id].password)
                  THEN Reply(r, UserLoginInvalid)
                  ELSE /\ users' = [users EXCEPT ![id].derniereConnexion = now]
                       /\ UNCHANGED <<exceptUsers, nextId, foreignKeys>>
                       /\ Answer(r, IF fault
                                    THEN Failure(500, "Erreur serveur")
                                    ELSE
                                    [NoResp EXCEPT !.status = 200,
                                       !.token = [userId |-> id,
                                                  email |-> users[id].email,
                                                  exp |-> UserLoginExp(now)],
                                       !.user = Select(users[id], id,
                                                       LoginSelect)])

\* GET /users without query parameters (page 1 of 10, no search): the
\* users, newest first
UserGetAll ==
  \E token \in Tokens :
    LET r == [NoReq EXCEPT !.op = "user.getAll", !.token = token]
        ids == Desc(DOMAIN users)
    IN /\ Accept
       /\ IF AuthMiddleware(r) # "next"
          THEN Reply(r, Failure(401, "Unauthorized"))
          ELSE Reply(r, [NoResp EXCEPT !.status = 200,
                           !.data = [i \in DOMAIN ids |->
                                       Select(users[ids[i]], ids[i], UserSelect)],
                           !.total = Cardinality(DOMAIN users)])

\* GET /users/:id
UserGet ==
  \E id \in Ids(users, "users"), token \in Tokens :
    LET r == [NoReq EXCEPT !.op = "user.get", !.id = id, !.token = token]
    IN /\ Accept
       /\ IF AuthMiddleware(r) # "next"
          THEN Reply(r, Failure(401, "Unauthorized"))
          ELSE IF id \notin DOMAIN users
          THEN Reply(r, Failure(404, "Utilisateur non trouvé"))
          ELSE Reply(r, [NoResp EXCEPT !.status = 200,
                           !.user = Select(users[id], id, UserSelect)])

\* an update that does not look the new email up
UserPutEmailExistsNone(id, email) == {}
\* the emailExists lookup of user.put("/:id")
UserPutEmailExists(id, email) ==
  IF email # NoString /\ email # users[id].email THEN UserByEmail(email) ELSE {}

\* updateData of user.put("/:id"): the columns the body names
UserPutData(u, email, password, type) ==
  [u EXCEPT !.email = IF email # NoString THEN email ELSE @,
            !.typesUtilisateur = IF type # NoString THEN type ELSE @,
            !.password = IF password # NoString THEN hashPassword(password)
                         ELSE @]

\* prisma.user.update({ where: { id }, data, select })
UserUpdateRow(r, id, row, select) ==
  IF \/ \E u \in DOMAIN users \ {id} : users[u].email = row.email
     \/ row.typesUtilisateur \notin TypesUtilisateur
  THEN Reply(r, Failure(500, "Erreur serveur"))
  ELSE /\ users' = [users EXCEPT ![id] = row]
       /\ UNCHANGED <<exceptUsers, nextId, foreignKeys>>
       /\ Answer(r, [NoResp EXCEPT !.status = 200,
                       !.user = Select(row, id, select)])

\* PUT /users/:id
UserPut ==
  \E id \in Ids(users, "users"), token \in Tokens,
     email \in Emails \cup {NoString}, password \in {NoString, "q"},
     type \in UpdateUserTypes \cup {NoString} :
    LET r == [NoReq EXCEPT !.op = "user.put", !.id = id, !.token = token,
                           !.email = email, !.password = password,
                           !.typesUtilisateur = type]
    IN /\ Accept
       /\ IF AuthMiddleware(r) # "next"
          THEN Reply(r, Failure(401, "Unauthorized"))
          ELSE IF id \notin DOMAIN users
          THEN Reply(r, Failure(404, "Utilisateur non trouvé"))
          ELSE IF UserPutEmailExists(id, email) # {}
          THEN Reply(r, Failure(400, "Cet email est déjà utilisé"))
          ELSE UserUpdateRow(r, id, UserPutData(users[id], email, password, type),
                             UserPutSelect)

\* prisma.user.delete({ where: { id } }): LeconsUtilisateur.userId restricts
UserDeleteRow(r, id) ==
  IF Restricts(leconsUtilisateur, "userId", id)
  THEN Reply(r, Failure(500, "Erreur serveur"))
  ELSE /\ users' = Remove(users, id)
       /\ UNCHANGED <<exceptUsers, nextId, foreignKeys>>
       /\ Answer(r, Status(200))

\* DELETE /users/:id
UserDelete ==
  \E id \in Ids(users, "users"), token \in Tokens :
    LET r == [NoReq EXCEPT !.op = "user.delete", !.id = id, !.token = token]
    IN /\ Accept
       /\ IF AuthMiddleware(r) # "next"
          THEN Reply(r, Failure(401, "Unauthorized"))
          ELSE IF id \notin DOMAIN users
          THEN Reply(r, Failure(404, "Utilisateur non trouvé"))
          ELSE UserDeleteRow(r, id)

\* the users a token may have been issued for (Null: there is no token, or
\* it is not one the service signed)
TokenUsers(token) ==
  IF token \in {"expired", "valid"} THEN DOMAIN users ELSE {Null}

\* GET /users/profile/me
UserProfileMe ==
  \E token \in Tokens :
    \E tokenUser \in TokenUsers(token) :
      LET r == [NoReq EXCEPT !.op = "user.profile", !.token = token,
                             !.tokenUser = tokenUser]
          currentUser == getCurrentUser(r)
      IN /\ Accept
         /\ IF currentUser = Null
            THEN Reply(r, Failure(500, "Erreur serveur"))
            ELSE IF currentUser \notin DOMAIN users
            THEN Reply(r, Failure(404, "Utilisateur non trouvé"))
            ELSE Reply(r, [NoResp EXCEPT !.status = 200,
                             !.user = Select(users[currentUser], currentUser,
                                             UserSelect)])

\* PUT /users/profile/change-password
UserChangePassword ==
  \E token \in Tokens, currentPassword \in Passwords,
     newPassword \in Passwords :
    \E tokenUser \in TokenUsers(token) :
      LET r == [NoReq EXCEPT !.op = "user.changePassword", !.token = token,
                             !.tokenUser = tokenUser,
                             !.password = currentPassword,
                             !.newPassword = newPassword]
          currentUser == getCurrentUser(r)
      IN /\ Accept
         /\ IF AuthMiddleware(r) # "next"
            THEN Reply(r, Failure(401, "Unauthorized"))
            ELSE IF currentUser = Null
            THEN Reply(r, Failure(500, "Erreur serveur"))
            ELSE IF currentUser \notin DOMAIN users
            THEN Reply(r, Failure(404, "Utilisateur non trouvé"))
            ELSE IF ~verifyPassword(currentPassword, users[currentUser].password)
            THEN Reply(r, Failure(400, "Mot de passe actuel incorrect"))
            ELSE /\ users' = [users EXCEPT ![currentUser].password =
                                             hashPassword(newPassword)]
                 /\ UNCHANGED <<exceptUsers, nextId, foreignKeys>>
                 /\ Answer(r, Status(200))

\* POST /users/logout
UserLogout ==
  \E token \in Tokens :
    LET r == [NoReq EXCEPT !.op = "user.logout", !.token = token]
    IN /\ Accept
       /\ IF AuthMiddleware(r) # "next"
          THEN Reply(r, Failure(401, "Unauthorized"))
          ELSE Reply(r, Status(200))

(***************************************************************************)
(* List requests                                                           *)
(***************************************************************************)
\* .default(50) of the query schemas, limit = 50 of matieres.get
DefaultLimit == 50
\* the limit and offset query parameters (Null: the parameter is absent)
Limits == (0..MaxLimit) \cup {Null}
Offsets == (1..MaxLimit) \cup {Null}
LimitOf(limit) == IF limit = Null THEN DefaultLimit ELSE limit
OffsetOf(offset) == IF offset = Null THEN 0 ELSE offset
\* the search terms a list request may carry (NoText: no search)
SearchTerms == {NoText, <<"A">>, <<"b">>}

\* the response of a list handler
Page(rows, total, limit, offset, hasMore) ==
  [status |-> 200, data |-> SkipTake(rows, offset, limit), total |-> total,
   hasMore |-> hasMore]

\* where = search ? { nom: { contains: search, mode: "insensitive" } } : {}
ClassesWhere(search) ==
  {x \in DOMAIN classes :
     search = NoText \/ ContainsInsensitive(classes[x].nom, search)}

\* GET /classes (first version): findMany is called without the filter, and
\* total is bound to the second element of Promise.all([findMany(...),
\* console.log(...), count()]), the undefined that console.log returns;
\* offset + limit < undefined is false
ClassesGet ==
  \E limit \in Limits, offset \in Offsets, search \in SearchTerms :
    LET r == [NoReq EXCEPT !.op = "classes.get", !.limit = limit,
                           !.offset = offset, !.search = search]
    IN Accept /\ Reply(r, Page(Desc(DOMAIN classes), Null,
                     LimitOf(limit), OffsetOf(offset), FALSE))

\* GET /classes (version with authMiddleware)
ClassesGetAuth ==
  \E limit \in Limits, offset \in Offsets, search \in SearchTerms :
    LET r == [NoReq EXCEPT !.op = "classes.getAuth", !.limit = limit,
                           !.offset = offset, !.search = search]
        total == Cardinality(ClassesWhere(search))
    IN Accept /\ Reply(r, Page(Desc(ClassesWhere(search)), total,
                     LimitOf(limit), OffsetOf(offset),
                     OffsetOf(offset) + LimitOf(limit) < total))

\* where = classesId ? { classesId } : {}
MatieresWhere(classesId) ==
  {x \in DOMAIN matieres : classesId = Null \/ matieres[x].classesId = classesId}

\* GET /matieres
MatieresGet ==
  \E limit \in Limits, offset \in Offsets,
     classesId \in DOMAIN classes \cup {Null} :
    LET r == [NoReq EXCEPT !.op = "matieres.get", !.limit = limit,
                           !.offset = offset, !.parentId = classesId]
        total == Cardinality(MatieresWhere(classesId))
    IN Accept /\ Reply(r, Page(Desc(MatieresWhere(classesId)), total,
                     LimitOf(limit), OffsetOf(offset),
                     OffsetOf(offset) + LimitOf(limit) < total))

\* where.OR = [{ nom: { contains } }, { description: { contains } }],
\* where.matieresId = matieresId
LeconsWhere(search, matieresId) ==
  {x \in DOMAIN lecons :
     /\ \/ search = NoText
        \/ ContainsInsensitive(lecons[x].nom, search)
        \/ ContainsInsensitive(lecons[x].description, search)
     /\ matieresId = Null \/ lecons[x].matieresId = matieresId}

\* GET /lecons, in the default order (createdAt desc)
LeconsGet ==
  \E limit \in Limits, offset \in Offsets, search \in SearchTerms,
     matieresId \in DOMAIN matieres \cup {Null} :
    LET r == [NoReq EXCEPT !.op = "lecons.get", !.limit = limit,
                           !.offset = offset, !.search = search,
                           !.parentId = matieresId]
        total == Cardinality(LeconsWhere(search, matieresId))
    IN Accept /\ Reply(r, Page(Desc(LeconsWhere(search, matieresId)), total,
                     LimitOf(limit), OffsetOf(offset),
                     OffsetOf(offset) + LimitOf(limit) < total))

SousLeconsWhere(search, leconsId) ==
  {x \in DOMAIN sousLecons :
     /\ \/ search = NoText
        \/ ContainsInsensitive(sousLecons[x].nom, search)
        \/ ContainsInsensitive(sousLecons[x].description, search)
     /\ leconsId = Null \/ sousLecons[x].leconsId = leconsId}

\* GET /souslecons, in the default order (createdAt asc)
SousLeconsGet ==
  \E limit \in Limits, offset \in Offsets, search \in SearchTerms,
     leconsId \in DOMAIN lecons \cup {Null} :
    LET r == [NoReq EXCEPT !.op = "sousLecons.get", !.limit = limit,
                           !.offset = offset, !.search = search,
                           !.parentId = leconsId]
        total == Cardinality(SousLeconsWhere(search, leconsId))
    IN Accept /\ Reply(r, Page(Asc(SousLeconsWhere(search, leconsId)), total,
                     LimitOf(limit), OffsetOf(offset),
                     OffsetOf(offset) + LimitOf(limit) < total))

(***************************************************************************)
(* Requests handled by two workers at once.  The handler of one request    *)
(* is taken in two steps, its reads and then its write (or its second      *)
(* read); between them the other worker handles requests.  The request     *)
(* and its response are kept in `inflight'.                                *)
(***************************************************************************)
\* the first step of a handler: the request is taken, its lookups have let
\* it pass, nothing is answered yet
Begin(r, partial) ==
  /\ Accept
  /\ inflight = NoInflight
  /\ inflight' = [req |-> r, resp |-> partial]
  /\ UNCHANGED <<db, writes, req, resp>>

\* the handler of the request `op' is between its two steps
Pending(op) == inflight.req.op = op /\ inflight.resp.status = 0

\* the last step of a handler: it returns c.json(...)
Finish(response) ==
  /\ inflight' = [inflight EXCEPT !.resp = response]
  /\ writes' = IF tables' # tables THEN writes + 1 ELSE writes
  /\ UNCHANGED <<req, resp>>

\* the response has been sent
InflightRespond ==
  /\ inflight.resp.status # 0
  /\ inflight' = NoInflight
  /\ UNCHANGED <<db, writes, req, resp>>

\* GET /lecons, the findMany of Promise.all([findMany, count]) (requests
\* without search and matieresId)
LeconsGetFindMany ==
  \E limit \in Limits, offset \in Offsets :
    LET r == [NoReq EXCEPT !.op = "lecons.get", !.limit = limit,
                           !.offset = offset]
        rows == SkipTake(Desc(LeconsWhere(NoText, Null)), OffsetOf(offset),
                         LimitOf(limit))
    IN /\ Accept
       /\ Begin(r, [NoResp EXCEPT !.data = rows])

\* GET /lecons, the count of Promise.all([findMany, count]) and the response
LeconsGetCount ==
  LET total == Cardinality(LeconsWhere(NoText, Null))
      limit == LimitOf(inflight.req.limit)
      offset == OffsetOf(inflight.req.offset)
  IN /\ Pending("lecons.get")
     /\ UNCHANGED db
     /\ Finish([inflight.resp EXCEPT !.status = 200, !.total = total,
                                     !.hasMore = offset + limit < total])

\* POST /classes, the findFirst that finds no class of the name
ClassesPostLookup ==
  \E nom \in Names :
    /\ ClassesPostExisting(nom) = {}
    /\ Begin([NoReq EXCEPT !.op = "classes.post", !.nom = nom], NoResp)

\* POST /classes, prisma.classes.create and the response: the table has no
\* unique index on nom
ClassesPostCreate ==
  /\ Pending("classes.post")
  /\ classes' = Insert(classes, nextId.classes, [nom |-> inflight.req.nom])
  /\ Allocate("classes")
  /\ UNCHANGED <<exceptClasses, users, foreignKeys>>
  /\ Finish(Status(201))

\* POST /matieres, the lookups: the class is stored and has no matiere of
\* the name
MatieresPostLookup ==
  \E nom \in Names, classesId \in DOMAIN classes :
    /\ MatieresPostExisting(nom, classesId) = {}
    /\ Begin([NoReq EXCEPT !.op = "matieres.post", !.nom = nom,
                           !.parentId = classesId], NoResp)

\* POST /matieres, prisma.matieres.create and the response
MatieresPostCreate ==
  /\ Pending("matieres.post")
  /\ IF ~FkOk(classes, inflight.req.parentId)
     THEN UNCHANGED db /\ Finish(Status(500))
     ELSE /\ matieres' = Insert(matieres, nextId.matieres,
                                [nom |-> inflight.req.nom,
                                 classesId |-> inflight.req.parentId])
          /\ Allocate("matieres")
          /\ UNCHANGED <<exceptMatieres, foreignKeys>>
          /\ Finish(Status(201))


(***************************************************************************)
(* Routing.  A path is the sequence of its segments; a route is registered *)
(* with a method, a pattern and a handler, and sub-applications are        *)
(* mounted under a prefix in the order of their registrations.             *)
(***************************************************************************)
\* the segments of a pattern that bind a parameter
Params == {":id", ":leconsId", ":matieresId"}

Route(method, path, op) == [method |-> method, path |-> path, op |-> op]

\* const classes = new Hono(): its routes in the order of registration
ClassesRoutes ==
  <<Route("GET", << >>, "classes.get"),
    Route("GET", <<":id">>, "classes.getId"),
    Route("POST", << >>, "classes.post"),
    Route("PUT", <<":id">>, "classes.put"),
    Route("DELETE", <<":id">>, "classes.delete"),
    Route("GET", <<":id", "matieres">>, "classes.getMatieres"),
    Route("GET", <<"search">>, "classes.search"),
    Route("GET", <<"health">>, "classes.health")>>

\* const lecons = new Hono(): its routes in the order of registration
LeconsRoutes ==
  <<Route("GET", << >>, "lecons.get"),
    Route("GET", <<":id">>, "lecons.getId"),
    Route("POST", <<"new">>, "lecons.postNew"),
    Route("PUT", <<"lecons", ":id">>, "lecons.put"),
    Route("DELETE", <<"lecons", ":id">>, "lecons.delete"),
    Route("GET", <<"lecons", ":id", "souslecons">>, "lecons.getSousLecons"),
    Route("GET", <<":id", "exercices">>, "lecons.getExercices"),
    Route("GET", <<"matieres", ":matieresId", "lecons">>, "lecons.getOfMatiere"),
    Route("GET", <<"search">>, "lecons.search")>>

\* const sousLecons = new Hono(): its routes in the order of registration
SousLeconsRoutes ==
  <<Route("GET", << >>, "sousLecons.get"),
    Route("GET", <<":id">>, "sousLecons.getId"),
    Route("POST", <<"new">>, "sousLecons.postNew"),
    Route("PUT", <<":id">>, "sousLecons.put"),
    Route("DELETE", <<":id">>, "sousLecons.delete"),
    Route("GET", <<":id", "exercices">>, "sousLecons.getExercices"),
    Route("GET", <<"lecons", ":leconsId", "souslecons">>, "sousLecons.getOfLecon"),
    Route("GET", <<"search">>, "sousLecons.search"),
    Route("PUT", <<"bulk-update">>, "sousLecons.bulkUpdate")>>

\* app.route(prefix, sub): the routes of sub, in their order, under prefix
Mounted(prefix, routes) ==
  [i \in DOMAIN routes |-> [routes[i] EXCEPT !.path = prefix \o @]]

\* api_routes.route("/classes", classes), ("/lecons", lecons),
\* ("/souslecons", sousLecons)
ApiRoutes ==
  Mounted(<<"classes">>, ClassesRoutes) \o Mounted(<<"lecons">>, LeconsRoutes)
    \o Mounted(<<"souslecons">>, SousLeconsRoutes)

\* app.route("/api", api_routes)
AppRoutes == Mounted(<<"api">>, ApiRoutes)

\* a pattern matches a path of as many segments whose literal segments agree
Match(pattern, path) ==
  /\ Len(pattern) = Len(path)
  /\ \A k \in DOMAIN pattern : pattern[k] \in Params \/ pattern[k] = path[k]

\* the registrations a request matches
MatchingRoutes(method, path) ==
  {i \in DOMAIN AppRoutes :
     AppRoutes[i].method = method /\ Match(AppRoutes[i].path, path)}

\* the handler that runs: that of the first registration that matches (none
\* of the handlers calls next()), or the application's notFound
Dispatch(method, path) ==
  LET found == MatchingRoutes(method, path)
  IN IF found = {} THEN "notFound"
     ELSE AppRoutes[CHOOSE i \in found : \A j \in found : i <= j].op

Methods == {"GET", "POST", "PUT", "DELETE"}
\* the paths of the requests the model sends: /api/<mount> and up to two
\* more segments
PathSegments == {"1", "search", "bulk-update", "health", "new", "exercices"}
Paths ==
  {<<"api", m>> \o rest :
     m \in {"classes", "lecons", "souslecons"},
     rest \in {<< >>} \cup [1..1 -> PathSegments] \cup [1..2 -> PathSegments]}

\* app.fetch(request): the request is routed to its handler; a request no
\* registration matches is answered 404 by notFound
Fetch ==
  \E method \in Methods, path \in Paths :
    /\ Accept
    /\ Reply([NoReq EXCEPT !.method = method, !.path = path,
                           !.op = Dispatch(method, path)],
             IF Dispatch(method, path) = "notFound" THEN Status(404) ELSE NoResp)

(***************************************************************************)
(* Specifications                                                          *)
(***************************************************************************)
\* the requests, one at a time
Next ==
  \/ ClassesPost
  \/ ClassesPostNew
  \/ ClassesPut
  \/ ClassesPutUpdate
  \/ ClassesDelete
  \/ ClassesDeleteDelete
  \/ MatieresPost
  \/ MatieresPut
  \/ MatieresDelete
  \/ LeconsPostNew
  \/ LeconsPut
  \/ LeconsDelete
  \/ SousLeconsPostNew
  \/ SousLeconsPut
  \/ SousLeconsDelete
  \/ ExercicesPost
  \/ ExercicesPut
  \/ ExercicesDelete
  \/ OptionsQCMPost
  \/ OptionsQCMDelete
  \/ UserDelete
  \/ ClassesGet
  \/ ClassesGetAuth
  \/ MatieresGet
  \/ LeconsGet
  \/ SousLeconsGet
  \/ Respond

Spec == Init /\ [][Next]_vars

\* the same requests on a storage engine that does not enforce foreign keys
InitNoFk ==
  /\ \E seed \in Seeds : InitDb(seed)
  /\ foreignKeys = FALSE

SpecNoFk == InitNoFk /\ [][Next]_vars

\* the exercise and option routes and the bulk routes
NextBulk ==
  \/ ExercicesPost \/ ExercicesPut
  \/ OptionsQCMPost \/ OptionsQCMBulk
  \/ SousLeconsBulkUpdate
  \/ Respond
SpecBulk == Init /\ [][NextBulk]_vars

\* two workers: one handles a list of lecons, a create of a class or a
\* create of a matiere in two steps, the other handles creates and deletes
\* of classes, matieres and lecons; on either storage engine
InitConcurrent ==
  /\ \E seed \in Seeds : InitDb(seed)
  /\ foreignKeys \in BOOLEAN
NextConcurrent ==
  \/ LeconsGetFindMany \/ LeconsGetCount
  \/ ClassesPostLookup \/ ClassesPostCreate
  \/ MatieresPostLookup \/ MatieresPostCreate
  \/ InflightRespond
  \/ ClassesPost \/ ClassesDelete \/ ClassesDeleteDelete \/ MatieresPost
  \/ LeconsPostNew \/ LeconsDelete
  \/ Respond
SpecConcurrent == InitConcurrent /\ [][NextConcurrent]_vars

\* the user routes (app.route("/users", user))
NextUsers ==
  \/ UserRegister \/ UserLogin \/ UserGetAll \/ UserGet \/ UserPut
  \/ UserDelete \/ UserProfileMe \/ UserChangePassword \/ UserLogout
  \/ Respond
SpecUsers == Init /\ [][NextUsers]_vars

\* the routing of requests to the class, lecon and sous-lecon routes
NextDispatch == Fetch \/ Respond
SpecDispatch == Init /\ [][NextDispatch]_vars

(***************************************************************************)
(* Properties of the requests.  A step of a handler leads from a state in  *)
(* which no request is being handled (Idle) to the state that holds the    *)
(* request (req') and its response (resp'); the unprimed tables are the    *)
(* store the request found, the primed ones the store it left.             *)
(***************************************************************************)
CreateOps == {"classes.post", "classes.postNew", "matieres.post",
              "lecons.postNew", "sousLecons.postNew"}
GuardedDeleteOps == {"classes.delete", "classes.deleteDelete", "matieres.delete",
                     "lecons.delete", "sousLecons.delete"}
DeleteOps == GuardedDeleteOps \cup {"exercices.delete", "optionsQCM.delete",
                                    "user.delete"}
PutOps == {"classes.put", "classes.putUpdate", "matieres.put", "lecons.put",
           "sousLecons.put", "exercices.put"}
ChildCreateOps == {"matieres.post", "lecons.postNew", "sousLecons.postNew",
                   "exercices.post", "optionsQCM.post"}
ListOps == {"classes.get", "classes.getAuth", "matieres.get", "lecons.get",
            "sousLecons.get"}
SearchOps == {"classes.get", "classes.getAuth", "lecons.get", "sousLecons.get"}

\* the position in `tables' of the table whose rows the path id of op names
PathTable(op) ==
  CASE op \in {"classes.put", "classes.putUpdate", "classes.delete",
               "classes.deleteDelete"} -> 1
    [] op \in {"matieres.put", "matieres.delete"} -> 2
    [] op \in {"lecons.put", "lecons.delete"} -> 3
    [] op \in {"sousLecons.put", "sousLecons.delete"} -> 4
    [] op \in {"exercices.put", "exercices.delete"} -> 5
    [] op = "optionsQCM.delete" -> 6
    [] op = "user.delete" -> 8

\* two names differ in letter case only
CaseVariant(n, m) == n # m /\ ToLower(n) = ToLower(m)
\* two names are equal ignoring case
SameIgnoringCase(n, m) == ToLower(n) = ToLower(m)

\* the stored rows of the kind the create request r is about that sit under
\* the parent r names and whose name differs from r's in letter case only
CaseVariantSiblings(r) ==
  CASE r.op \in {"classes.post", "classes.postNew"} ->
         {x \in DOMAIN classes : CaseVariant(classes[x].nom, r.nom)}
    [] r.op = "matieres.post" ->
         {x \in DOMAIN matieres : /\ matieres[x].classesId = r.parentId
                                  /\ CaseVariant(matieres[x].nom, r.nom)}
    [] r.op = "lecons.postNew" ->
         {x \in DOMAIN lecons : /\ lecons[x].matieresId = r.parentId
                                /\ CaseVariant(lecons[x].nom, r.nom)}
    [] r.op = "sousLecons.postNew" ->
         {x \in DOMAIN sousLecons : /\ sousLecons[x].leconsId = r.parentId
                                    /\ CaseVariant(sousLecons[x].nom, r.nom)}

\* C1: a create request for a Class, Subject, Lesson or SubLesson whose name
\* differs only in letter case from the name of a row stored under the same
\* parent is answered with 400, and it stores no row (the storage layer
\* answering its queries).
C1_CaseVariantCreateRejected ==
  [][(/\ Idle /\ req'.op \in CreateOps /\ ~req'.fault
      /\ CaseVariantSiblings(req') # {})
       => (resp'.status = 400 /\ tables' = tables)]_vars

\* no two rows of t with the same value in column col have names that are
\* equal ignoring case
UniqueAmongSiblings(t, col) ==
  \A x, y \in DOMAIN t :
    (x # y /\ t[x][col] = t[y][col]) => ~SameIgnoringCase(t[x].nom, t[y].nom)

\* C2: in every reachable state no two distinct Subjects of a class, Lessons
\* of a subject or SubLessons of a lesson have names that are equal ignoring
\* case (also after an update that changes only the parent of a row).
C2_SiblingNamesUnique ==
  /\ UniqueAmongSiblings(matieres, "classesId")
  /\ UniqueAmongSiblings(lecons, "matieresId")
  /\ UniqueAmongSiblings(sousLecons, "leconsId")

\* the row the delete request r names has a row in one of the dependent
\* relations: Class-Subject; Subject-Lesson, Subject-Exercise; Lesson-SubLesson,
\* Lesson-Exercise, Lesson-UserLessonLink; SubLesson-Exercise
HasDependents(r) ==
  CASE r.op \in {"classes.delete", "classes.deleteDelete"} ->
         Refs(matieres, "classesId", r.id) # {}
    [] r.op = "matieres.delete" ->
         Refs(lecons, "matieresId", r.id) # {} \/ Refs(exercices, "matieresId", r.id) # {}
    [] r.op = "lecons.delete" ->
         \/ Refs(sousLecons, "leconsId", r.id) # {}
         \/ Refs(exercices, "leconId", r.id) # {}
         \/ Refs(leconsUtilisateur, "leconsId", r.id) # {}
    [] r.op = "sousLecons.delete" ->
         Refs(exercices, "sousLeconsId", r.id) # {}

\* C3: a delete request for a stored Class, Subject, Lesson or SubLesson that
\* has a row in one of its dependent relations is answered with 400, and the
\* store (the parent and its children with it) is left as it was.
C3_GuardedDeleteRejected ==
  [][(/\ Idle
      /\ req'.op \in GuardedDeleteOps
      /\ req'.id \in DOMAIN tables[PathTable(req'.op)]
      /\ HasDependents(req'))
       => (resp'.status = 400 /\ tables' = tables)]_vars

\* a lesson that only a UserLessonLink row depends on: its delete is refused
C3_Witness ==
  /\ req.op = "lecons.delete"
  /\ resp.status = 400
  /\ req.id \in DOMAIN lecons
  /\ Refs(leconsUtilisateur, "leconsId", req.id) # {}
  /\ Refs(sousLecons, "leconsId", req.id) = {}
  /\ Refs(exercices, "leconId", req.id) = {}

\* C4: a delete request for a stored Class, Subject, Lesson or SubLesson that
\* has no row in any of its dependent relations is answered with 200 and the
\* row is gone afterwards, also for a Class that users reference by classesId.
C4_UnguardedDeleteSucceeds ==
  [][(/\ Idle
      /\ req'.op \in GuardedDeleteOps
      /\ req'.id \in DOMAIN tables[PathTable(req'.op)]
      /\ ~HasDependents(req'))
       => (resp'.status = 200 /\ req'.id \notin DOMAIN tables'[PathTable(req'.op)])]_vars

\* class 3 is deleted in the store that started with user 1 in class 3 (the
\* start in which user 1 follows lesson 2)
C4_Witness ==
  /\ req.op = "classes.delete"
  /\ req.id = 3
  /\ resp.status = 200
  /\ 3 \notin DOMAIN classes
  /\ 1 \in DOMAIN leconsUtilisateur
  /\ leconsUtilisateur[1].leconsId = 2
  /\ users[1].classesId = Null

\* every row of t but the row id is in u as it is in t, and u has no other row
OtherRowsKept(t, u, id) ==
  /\ DOMAIN u \subseteq DOMAIN t
  /\ \A x \in DOMAIN t \ {id} : x \in DOMAIN u /\ u[x] = t[x]

\* the delete request r has left every row but the one it names as it was
DeleteKeepsOthers(r) ==
  \A i \in 1..Len(tables) :
    IF i = PathTable(r.op)
    THEN OtherRowsKept(tables[i], tables'[i], r.id)
    ELSE tables'[i] = tables[i]

UsersDetached(id) ==
  /\ DOMAIN users' = DOMAIN users
  /\ \A u \in DOMAIN users :
       \/ users'[u] = users[u]
       \/ users[u].classesId = id /\ users'[u] = [users[u] EXCEPT !.classesId = Null]

ParentIds(r) ==
  CASE r.op = "matieres.post" -> DOMAIN classes
    [] r.op = "lecons.postNew" -> DOMAIN matieres
    [] r.op = "sousLecons.postNew" -> DOMAIN lecons
    [] r.op = "exercices.post" -> DOMAIN matieres
    [] r.op = "optionsQCM.post" -> DOMAIN exercices

\* C6: a create request for a Subject, Lesson, SubLesson, Exercise or
\* AnswerOption whose required parent id names no stored row is answered with
\* a client error (4xx, never 500), and it stores no row.
C6_MissingParentRejected ==
  [][(Idle /\ req'.op \in ChildCreateOps /\ req'.parentId \notin ParentIds(req'))
       => (resp'.status \in 400..499 /\ tables' = tables)]_vars

\* an exercise for a subject that is not stored is refused
C6_Witness ==
  /\ req.op = "exercices.post"
  /\ req.parentId \notin DOMAIN matieres
  /\ resp.status \in 400..499

\* a payload field holds an id (it is neither absent nor an explicit null)
\* that names no row of the table with the ids S
Dangling(field, S) == field # Null /\ field # JsonNull /\ field \notin S

\* a foreign key in the payload of the request r references no stored row
MissingReference(r) ==
  CASE r.op \in {"matieres.post", "matieres.put"} -> Dangling(r.parentId, DOMAIN classes)
    [] r.op \in {"lecons.postNew", "lecons.put"} -> Dangling(r.parentId, DOMAIN matieres)
    [] r.op \in {"sousLecons.postNew", "sousLecons.put"} ->
         Dangling(r.parentId, DOMAIN lecons)
    [] r.op \in {"exercices.post", "exercices.put"} ->
         \/ Dangling(r.parentId, DOMAIN matieres)
         \/ Dangling(r.leconId, DOMAIN lecons)
         \/ Dangling(r.sousLeconsId, DOMAIN sousLecons)
    [] r.op = "optionsQCM.post" -> Dangling(r.parentId, DOMAIN exercices)
    [] OTHER -> FALSE

\* the request r has a path id and the id names no stored row
PathMissing(r) ==
  /\ r.op \in PutOps \cup DeleteOps
  /\ r.id \notin DOMAIN tables[PathTable(r.op)]

\* C7: a create or update request that is rejected while a foreign key of its
\* payload references no stored row (and the row of its path id, if it has
\* one, is stored) is answered with 400; a 404 is only given when the row of
\* the path id is not stored.  (A rejected request leaves the store as it
\* was, so the response is compared with the store of the same state.)
C7_MissingReferenceIs400 ==
  (~Idle /\ resp.status \notin {200, 201})
    => /\ (MissingReference(req) /\ ~PathMissing(req)) => resp.status = 400
       /\ resp.status = 404 => PathMissing(req)

\* C8: every non-null parent reference of a stored row names a stored row
\* (to be kept by the checks of the handlers, on a storage engine that does
\* not enforce foreign keys).
C8_ReferencesResolve ==
  /\ \A x \in DOMAIN matieres : matieres[x].classesId \in DOMAIN classes
  /\ \A x \in DOMAIN lecons : lecons[x].matieresId \in DOMAIN matieres
  /\ \A x \in DOMAIN sousLecons : sousLecons[x].leconsId \in DOMAIN lecons
  /\ \A x \in DOMAIN exercices :
       /\ exercices[x].matieresId \in DOMAIN matieres
       /\ exercices[x].leconId \in DOMAIN lecons \cup {Null}
       /\ exercices[x].sousLeconsId \in DOMAIN sousLecons \cup {Null}
  /\ \A x \in DOMAIN optionsQCM : optionsQCM[x].exercicesId \in DOMAIN exercices

\* the rows the filter of the list request r matches
Matching(r) ==
  CASE r.op \in {"classes.get", "classes.getAuth"} -> ClassesWhere(r.search)
    [] r.op = "matieres.get" -> MatieresWhere(r.parentId)
    [] r.op = "lecons.get" -> LeconsWhere(r.search, r.parentId)
    [] r.op = "sousLecons.get" -> SousLeconsWhere(r.search, r.parentId)

\* C9: the response to a list request with limit L and offset O whose filter
\* matches N rows holds min(L, max(0, N - O)) rows, its total is N and its
\* hasMore is true exactly when O + L < N.  (A list request leaves the store
\* as it was.)
C9_Pagination ==
  req.op \in ListOps =>
    LET L == LimitOf(req.limit)
        O == OffsetOf(req.offset)
        N == Cardinality(Matching(req))
    IN /\ Len(resp.data) = Min(L, Max(0, N - O))
       /\ resp.total = N
       /\ resp.hasMore = (O + L < N)

\* a searched text field of the row x contains the term of the request r,
\* ignoring case
RowContains(r, x) ==
  CASE r.op \in {"classes.get", "classes.getAuth"} ->
         ContainsInsensitive(classes[x].nom, r.search)
    [] r.op = "lecons.get" ->
         \/ ContainsInsensitive(lecons[x].nom, r.search)
         \/ ContainsInsensitive(lecons[x].description, r.search)
    [] r.op = "sousLecons.get" ->
         \/ ContainsInsensitive(sousLecons[x].nom, r.search)
         \/ ContainsInsensitive(sousLecons[x].description, r.search)

\* C10: in the response to a list request with a search term every returned
\* row has a searched text field that contains the term ignoring case, and
\* total is the number of rows the filter of the page matches.
C10_Search ==
  (req.op \in SearchOps /\ req.search # NoText) =>
    /\ \A i \in DOMAIN resp.data : RowContains(req, resp.data[i])
    /\ resp.total = Cardinality(Matching(req))

NamePutOps == {"classes.put", "classes.putUpdate", "matieres.put", "lecons.put",
               "sousLecons.put"}

\* the name of the stored row that the update request r addresses
StoredName(r) == tables[PathTable(r.op)][r.id].nom

\* the rows beside the row of the update request r (in the same parent; all
\* classes for a class) whose name equals the name r carries, ignoring case
NamedSiblings(r) ==
  CASE r.op \in {"classes.put", "classes.putUpdate"} ->
         {x \in DOMAIN classes \ {r.id} : SameIgnoringCase(classes[x].nom, r.nom)}
    [] r.op = "matieres.put" ->
         {x \in DOMAIN matieres \ {r.id} :
            /\ matieres[x].classesId = matieres[r.id].classesId
            /\ SameIgnoringCase(matieres[x].nom, r.nom)}
    [] r.op = "lecons.put" ->
         {x \in DOMAIN lecons \ {r.id} :
            /\ lecons[x].matieresId = lecons[r.id].matieresId
            /\ SameIgnoringCase(lecons[x].nom, r.nom)}
    [] r.op = "sousLecons.put" ->
         {x \in DOMAIN sousLecons \ {r.id} :
            /\ sousLecons[x].leconsId = sousLecons[r.id].leconsId
            /\ SameIgnoringCase(sousLecons[x].nom, r.nom)}

GuardedOps ==
  {"user.getAll", "user.get", "user.put", "user.delete",
   "user.changePassword", "user.logout"}

\* the response carries nothing read from the store
NothingRead(response) ==
  /\ response.data = << >>
  /\ response.total = Null
  /\ response.user = NoUser
  /\ response.token = NoToken

\* C12: a request to a route guarded by the authentication middleware whose
\* Authorization header is absent, is no token of the service or is an
\* expired one is answered 401 by the middleware: no table changes and the
\* response carries nothing read from the store.
C12_UnauthenticatedRejected ==
  [][(Idle /\ req'.op \in GuardedOps /\ req'.token # "valid")
       => /\ resp'.status = 401
          /\ tables' = tables
          /\ NothingRead(resp')]_vars

\* the stored password hash of user u differs before and after the step
HashReplaced(u) ==
  /\ u \in DOMAIN users
  /\ u \in DOMAIN users'
  /\ users'[u].password # users[u].password

\* C13: the stored password hash of a user changes only in a step whose
\* request is a password change that supplied a current password verifying
\* against the hash stored before the step; no other request (the general
\* user update included) replaces it.
C13_HashChangesOnlyWithCurrentPassword ==
  [][\A u \in DOMAIN users :
       HashReplaced(u)
         => /\ req'.op = "user.changePassword"
            /\ hashPassword(req'.password) = users[u].password]_vars

\* the users the token of request r was issued to by a login: a token of the
\* service, not expired, whose payload names a stored user
LoggedIn(r) ==
  IF r.token = "valid" /\ r.tokenUser \in DOMAIN users THEN {r.tokenUser}
  ELSE {}

\* login with `password' would succeed for the stored row u
LoginSucceeds(u, password) == verifyPassword(password, u.password)

\* C14: a password-change request carrying the token issued to a stored
\* user is answered 200 when its current password verifies against the
\* stored hash, and then the hash of the new password is stored (so a login
\* with the new password succeeds, and one with a different old password
\* fails); when the current password does not verify it is answered 400 and
\* the stored hash stays.
C14_PasswordChange ==
  [][(Idle /\ req'.op = "user.changePassword")
       => \A u \in LoggedIn(req') :
            IF verifyPassword(req'.password, users[u].password)
            THEN /\ resp'.status = 200
                 /\ u \in DOMAIN users'
                 /\ LoginSucceeds(users'[u], req'.newPassword)
                 /\ req'.newPassword # req'.password
                      => ~LoginSucceeds(users'[u], req'.password)
            ELSE /\ resp'.status = 400
                 /\ users' = users]_vars

\* seconds of the lifetime of a token: 72 hours
TokenLifetime == 72 * 60 * 60

\* the stored users a login request r names with the matching password
Credentials(r) ==
  {u \in DOMAIN users :
     users[u].email = r.email /\ verifyPassword(r.password, users[u].password)}

\* `seconds' is the time `millis' in whole seconds
InSeconds(millis, seconds) ==
  seconds * 1000 <= millis /\ millis < (seconds + 1) * 1000

\* C15: a login request with the email of a stored user and the matching
\* password is answered 200 with a token whose payload carries the id and
\* the email of that user, and an exp that is the time of issuance in
\* seconds plus 72*60*60 (the signing key being configured).
C15_LoginIssuesToken ==
  [][(Idle /\ req'.op = "user.login" /\ ~req'.fault)
       => \A u \in Credentials(req') :
            /\ resp'.status = 200
            /\ resp'.token.userId = u
            /\ resp'.token.email = users[u].email
            /\ InSeconds(req'.now, resp'.token.exp - TokenLifetime)]_vars

C15_Witness ==
  /\ req.op = "user.login" /\ resp.status = 200
  /\ req.now = 1999 /\ resp.token = [userId |-> 1, email |-> "x@s",
                                     exp |-> 1 + 259200]
  /\ users[1].derniereConnexion = 1999

\* the one response of a refused login: status 400, a body that holds the
\* same message whatever was wrong, no token and no user
RefusedLogin ==
  [NoResp EXCEPT !.status = 400, !.error = "Email ou mot de passe incorrect"]

\* C16: the response of a login (that carries an email and a password) for
\* an unknown email and the response of a login for a known email with a
\* wrong password are the same response
\* (status 400, same body); neither carries a token, and neither changes the
\* last-login time of any user (nor anything else that is stored).
C16_RefusedLoginsAlike ==
  [][(/\ Idle /\ req'.op = "user.login"
      /\ req'.email # NoString /\ req'.password # NoString
      /\ Credentials(req') = {})
       => /\ resp' = RefusedLogin
          /\ resp'.token = NoToken
          /\ \A u \in DOMAIN users :
               /\ u \in DOMAIN users'
               /\ users'[u].derniereConnexion = users[u].derniereConnexion
          /\ tables' = tables]_vars

C16_Witness ==
  /\ req.op = "user.login" /\ req.email = "x@s" /\ req.password = "q"
  /\ resp.status = 400 /\ resp.error # NoString
  /\ 1 \in DOMAIN users /\ users[1].email = "x@s"

\* no two stored users have the same email
UniqueEmails ==
  \A u, v \in DOMAIN users : users[u].email = users[v].email => u = v

\* the request r is an update that changes the email of a stored user to
\* one that another stored user holds
TakesEmail(r) ==
  /\ r.op = "user.put"
  /\ r.id \in DOMAIN users
  /\ r.email # NoString
  /\ r.email # users[r.id].email
  /\ \E u \in DOMAIN users \ {r.id} : users[u].email = r.email

\* C17: in every state that register and user-update requests (and the
\* other user routes) lead to, no two stored users have the same email; a
\* registration with a stored email is answered 400 and stores no user, and
\* an update that changes the email of a user to the one of another user is
\* answered 400 and changes nothing.
C17_EmailsUnique ==
  /\ UniqueEmails
  /\ [][/\ UniqueEmails'
        /\ (Idle /\ req'.op = "user.register" /\ UserByEmail(req'.email) # {})
             => (resp'.status = 400 /\ tables' = tables)
        /\ (Idle /\ TakesEmail(req'))
             => (resp'.status = 400 /\ tables' = tables)]_vars

C17_Witness ==
  /\ req.op = "user.put" /\ req.id = 1 /\ req.email = "y@s"
  /\ resp.status = 400
  /\ users[1].email = "x@s" /\ users[2].email = "y@s"

\* the role a user gets when none is given: @default(ELEVE)
DefaultType == "ELEVE"

\* the users the step has added
Registered == DOMAIN users' \ DOMAIN users

\* every stored user has a role of the enum of the schema
RolesInEnum == \A u \in DOMAIN users : users[u].typesUtilisateur \in TypesUtilisateur

\* C18: a registration with an email that no stored user has is answered 201
\* and stores one user, with that email and the default role (ELEVE); and in
\* every state the role of each stored user is one of ADMIN, ELEVE,
\* MODERATOR, whether registration or an update wrote it.
C18_RegistrationStoresStudent ==
  /\ RolesInEnum
  /\ [][/\ RolesInEnum'
        /\ (Idle /\ req'.op = "user.register" /\ UserByEmail(req'.email) = {})
             => /\ resp'.status = 201
                /\ \E u \in Registered :
                     /\ Registered = {u}
                     /\ users'[u].email = req'.email
                     /\ users'[u].typesUtilisateur = DefaultType]_vars

\* the requests of the user routes that answer with user data or take a
\* password
UserOps ==
  {"user.register", "user.login", "user.getAll", "user.get", "user.put",
   "user.profile", "user.changePassword"}

\* columns whose values are numbers (ids and times), never a secret
NumberFields == {"id", "derniereConnexion", "classesId"}

\* the password hashes the store holds or a request has produced, and the
\* passwords the request r submitted
Secrets(r) ==
  {users[u].password : u \in DOMAIN users}
    \cup {hashPassword(p) : p \in Passwords}
    \cup ({r.password, r.newPassword} \ {NoString})

\* the object `user' of a response body holds a secret
Leaks(user, r) ==
  \/ "password" \in DOMAIN user
  \/ \E f \in DOMAIN user \ NumberFields : user[f] \in Secrets(r)

\* C19: no response of a user route (register, login, list, get, update,
\* profile, change-password) holds the stored password hash or the password
\* the request submitted: not as a column of a user object, not in the token
\* payload, not in the message.
C19_NoPasswordInResponse ==
  req.op \in UserOps
    => /\ ~Leaks(resp.user, req)
       /\ \A i \in DOMAIN resp.data : ~Leaks(resp.data[i], req)
       /\ resp.token.email \notin Secrets(req)
       /\ resp.error \notin Secrets(req)

C19_Witness ==
  /\ req.op = "user.put" /\ req.password = "q" /\ resp.status = 200
  /\ req.id \in DOMAIN users /\ users[req.id].password = "sha256(q)"
  /\ resp.user.id = req.id

(***************************************************************************)
(* Failures                                                                *)
(***************************************************************************)
\* C20: a request whose handler meets a failure of the storage layer is
\* answered with status 500 and a body that is a fixed message, without the
\* raised error; the handler does not try again, so nothing is stored.  No
\* response has another status of the 5xx range, and none holds a raised
\* error.
C20_FailureIsGeneric500 ==
  [][/\ (Idle /\ req'.fault)
          => (resp'.status = 500 /\ ~resp'.cause /\ tables' = tables)
     /\ resp'.status >= 500 => resp'.status = 500
     /\ ~resp'.cause]_vars

(***************************************************************************)
(* Frames, validation, batches, interleavings and dispatch                 *)
(***************************************************************************)
\* the statuses of success
Success == 200..299

\* C21: a request that ends with a status outside 2xx leaves every table as
\* it was before the request (the checks of a handler come before its first
\* write, and nothing is written once a step has failed, a login whose token
\* cannot be signed included).
C21_FailureLeavesStore ==
  [][(Idle /\ ~Idle' /\ resp'.status \notin Success) => tables' = tables]_vars

\* the payload of request r is malformed or lacks a required field (of the
\* requests of this model only a login can: every other payload is one its
\* schema accepts)
Malformed(r) ==
  /\ r.op = "user.login"
  /\ r.email = NoString \/ r.password = NoString

\* C22: a create, update, register or login request whose payload is
\* malformed or lacks a required field is answered 400, never 500, and by
\* the validation, before the handler reads the store: the response is not
\* the handler's refusal, and nothing is stored.
C22_MalformedRejected ==
  [][(Idle /\ Malformed(req'))
       => /\ resp'.status = 400
          /\ resp' # RefusedLogin
          /\ tables' = tables]_vars

\* C23: an update or delete request whose path id names no stored row of its
\* resource is answered 404 and leaves every table as it was, for every
\* resource kind, the update of a Class included.
C23_MissingRowIs404 ==
  [][(Idle /\ PathMissing(req'))
       => (resp'.status = 404 /\ tables' = tables)]_vars

\* the requests with a batch
BulkOps == {"optionsQCM.bulk", "sousLecons.bulkUpdate"}

\* the i-th item of the batch of request r has been written by the step
ItemWritten(r, i) ==
  IF r.op = "optionsQCM.bulk"
  THEN nextId.optionsQCM + i - 1 \in DOMAIN optionsQCM'
  ELSE /\ r.batch[i].id \in DOMAIN sousLecons'
       /\ sousLecons'[r.batch[i].id].leconsId = r.batch[i].leconsId

\* C24: a bulk create of options and a bulk update of sous-lecons is all or
\* nothing: when the response is a success every item of the batch has been
\* written, and when it is an error the table is as it was before the
\* request.
C24_BulkAllOrNothing ==
  [][(Idle /\ req'.op \in BulkOps)
       => IF resp'.status \in Success
          THEN \A i \in DOMAIN req'.batch : ItemWritten(req', i)
          ELSE tables' = tables]_vars

\* the number of rows a page holds when the filter matches `total' rows
PageLength(total, limit, offset) ==
  Min(limit, Max(0, total - offset))

\* C25: the rows and the total of a list response whose page and count
\* queries are issued concurrently describe one state of the store, also
\* when a create or a delete on the resource comes between the two reads: the
\* page holds as many rows as the page of a store with `total' matching rows
\* holds.
C25_PageAndTotalAgree ==
  (inflight.req.op = "lecons.get" /\ inflight.resp.status = 200)
    => Len(inflight.resp.data) =
         PageLength(inflight.resp.total, LimitOf(inflight.req.limit),
                    OffsetOf(inflight.req.offset))

\* C26: Classes.nom is unique in the store: whatever the interleaving of two
\* create requests with the same name, each looking the name up before
\* either writes, at most one class of that name is stored.
C26_ClassNamesUnique ==
  \A x, y \in DOMAIN classes : classes[x].nom = classes[y].nom => x = y

\* the exercises some stored option belongs to
WithOptions == {optionsQCM[o].exercicesId : o \in DOMAIN optionsQCM}

\* C27: in every state reached by exercise create/update and option
\* create/bulk-create requests, every stored option belongs to a stored
\* exercise whose type is QCM
C27_OptionsBelongToQCM ==
  \A e \in WithOptions : e \in DOMAIN exercices /\ exercices[e].typesExercice = "QCM"

\* an update that would take an exercise with options away from QCM was answered
C27_Witness ==
  /\ req.op = "exercices.put"
  /\ req.id \in WithOptions
  /\ req.typesExercice \notin {"none", "QCM"}
  /\ resp.status # 0
  /\ C27_OptionsBelongToQCM

\* the two routes that delete a class
ClassDeletes == {"classes.delete", "classes.deleteDelete"}

\* a matiere of the class the delete request removed is stored
Orphaned == \E m \in DOMAIN matieres :
              matieres[m].classesId = req.id /\ req.id \notin DOMAIN classes

\* C28: when a delete of a class and a create of a matiere of that class are
\* handled concurrently, no interleaving ends with the matiere stored and the
\* class deleted while both requests report success
C28_NoOrphanWhenBothSucceed ==
  ~(/\ req.op \in ClassDeletes /\ resp.status = 200
    /\ inflight.req.op = "matieres.post" /\ inflight.resp.status = 201
    /\ inflight.req.parentId = req.id
    /\ Orphaned)

\* the same outcome on the storage engine that enforces the foreign keys
C28_NoOrphanWithForeignKeys == foreignKeys => C28_NoOrphanWhenBothSucceed

\* with the foreign keys enforced the create that lost the race is refused
C28_Refused ==
  /\ foreignKeys
  /\ req.op \in ClassDeletes /\ resp.status = 200
  /\ inflight.req.op = "matieres.post" /\ inflight.resp.status = 500
  /\ inflight.req.parentId = req.id

\* the registrations whose pattern binds no parameter
LiteralRoutes ==
  {i \in DOMAIN AppRoutes :
     \A k \in DOMAIN AppRoutes[i].path : AppRoutes[i].path[k] \notin Params}

\* the request has been routed
Routed == req.method # NoString

\* C29: a routed request runs the handler of the first registration that
\* matches it, and a request for the path of a registration with a literal
\* path runs that registration's handler
C29_LiteralRoutesReached ==
  Routed =>
    /\ \/ req.op = "notFound" /\ MatchingRoutes(req.method, req.path) = {}
       \/ \E i \in MatchingRoutes(req.method, req.path) :
            /\ req.op = AppRoutes[i].op
            /\ \A j \in MatchingRoutes(req.method, req.path) : i <= j
    /\ \A i \in LiteralRoutes :
         (req.method = AppRoutes[i].method /\ req.path = AppRoutes[i].path)
           => req.op = AppRoutes[i].op

\* some id listed in the batch of the request r identifies no stored row
NamesMissing(r) == \E i \in DOMAIN r.batch : r.batch[i].id \notin DOMAIN sousLecons

\* C30: the bulk update of sous-lecons answers 400 "Une ou plusieurs
\* sous-leçons n'existent pas" exactly when some id of the batch identifies no
\* stored sous-lecon; a batch whose ids all exist, one of them twice, is not
\* rejected by this check
C30_RejectedIffMissing ==
  [][(Idle /\ req'.op = "sousLecons.bulkUpdate")
       => (resp' = Failure(400, "Une ou plusieurs sous-leçons n'existent pas")
             <=> NamesMissing(req'))]_vars

====
